---------------------------- MODULE Spec2Model ----------------------------
(***************************************************************************)
(* A model of the orchestration core of gotlai: the Translator             *)
(* (translator.go), the retry wrapper (WithRetry) and the token-bucket     *)
(* rate limiter (ratelimit.go).                                            *)
(*                                                                         *)
(* Three specifications share the module, one per component; each one      *)
(* keeps the variables of the other components at their initial value:     *)
(*   Spec         one Translator with its cache, processors and backend    *)
(*   SpecRetry    one WithRetry call                                       *)
(*   SpecLimiter  one RateLimiter shared by concurrent callers             *)
(*                                                                         *)
(* Strings are sequences of one-character strings so that Split, ToLower   *)
(* and concatenation are computed, not assumed.  SHA-256 is modelled as an *)
(* injective tag on the trimmed text.  Time is a discrete clock (now) in   *)
(* seconds; float64 token counts are exact rationals in units of 1/60      *)
(* token.                                                                  *)
(***************************************************************************)
EXTENDS Integers, Sequences, FiniteSets, TLC

\* ------------------------------------------------------------- bounds
MaxTime == 2
MaxNodes == 3
MaxProcessCalls == 2
MaxFaults == 1
MaxRetriesBound == 2
MaxOps == 4
MaxCacheOps == 4
MaxDiffNodes == 2
DurationBits == 4
MaxParNodes == 3
MaxEntries == 2
MaxConcNodes == 2
MaxConcCalls == 3

\* ------------------------------------------------------------ helpers
Range(s) == {s[i] : i \in 1..Len(s)}

Min(a, b) == IF a < b THEN a ELSE b

\* The map m with key k set to v (Go: m[k] = v).
MapPut(m, k, v) == [x \in DOMAIN m \cup {k} |-> IF x = k THEN v ELSE m[x]]

\* The map m without key k (Go: delete(m, k)).
MapDel(m, k) == [x \in DOMAIN m \ {k} |-> m[x]]

EmptyMap == [x \in {} |-> 0]

\* ------------------------------------------------------------ strings
\* strings.ToLower on one character.
LowerChar(c) ==
    CASE c = "E" -> "e"
      [] c = "N" -> "n"
      [] c = "S" -> "s"
      [] c = "U" -> "u"
      [] OTHER -> c

ToLower(s) == [i \in 1..Len(s) |-> LowerChar(s[i])]

\* strings.Split(s, "_")[0]: the prefix of s before its first "_".
RECURSIVE SplitFirst(_)
SplitFirst(s) ==
    IF s = <<>> \/ Head(s) = "_" THEN <<>>
    ELSE <<Head(s)>> \o SplitFirst(Tail(s))

IsSpace(c) == c \in {" ", "\t", "\n"}

RECURSIVE TrimLeft(_)
TrimLeft(s) == IF s # <<>> /\ IsSpace(Head(s)) THEN TrimLeft(Tail(s)) ELSE s

RECURSIVE TrimRight(_)
TrimRight(s) ==
    IF s # <<>> /\ IsSpace(s[Len(s)]) THEN TrimRight(SubSeq(s, 1, Len(s) - 1)) ELSE s

\* strings.TrimSpace
TrimSpace(s) == TrimRight(TrimLeft(s))

\* HashText: the digest of the trimmed text, an injective tag.
HashText(text) == <<"#">> \o TrimSpace(text)

\* CacheKey: hash + ":" + targetLang
CacheKey(hash, lang) == hash \o <<":">> \o lang


\* strings.ReplaceAll(s, "_", "-")
ToHTMLLang(langCode) ==
    [i \in 1..Len(langCode) |-> IF langCode[i] = "_" THEN "-" ELSE langCode[i]]

\* RTLLanguages (types.go), restricted to the tags of LangPairs.
RTLLanguages == {<<"a", "r">>, <<"h", "e">>}

GetDirection(langCode) ==
    IF ToLower(SplitFirst(langCode)) \in RTLLanguages THEN "rtl" ELSE "ltr"

\* ------------------------------------------------------------ variables
VARIABLES
    now,              \* the clock (time.Now), in seconds
    \* --- Translator
    tr,               \* the Translator struct: targetLang, sourceLang, provider, cache, processors
    cache,            \* the cache's map: key -> [value, timestamp]
    pc,               \* where the Process call stands
    content,          \* Process's content argument
    contentType,      \* Process's contentType argument
    nodes,            \* the units Extract returned
    idx,              \* the loop index of translateBatch's two loops
    translations,     \* translateBatch: translations
    cacheMisses,      \* translateBatch: cacheMisses
    seenHashes,       \* translateBatch: seenHashes
    cachedCount,      \* translateBatch: cachedCount
    translatedCount,  \* translateBatch: translatedCount
    results,          \* what the backend returned
    out,              \* what Process returned
    obs,              \* what an observer of this call has seen (calls made, outcomes)
    prev,             \* the previous Process call: its arguments and outcome
    \* --- WithRetry
    cfg,              \* the RetryConfig: MaxRetries, BaseDelay, MaxDelay
    rpc,              \* where the WithRetry call stands
    attempt,          \* WithRetry: attempt
    lastErr,          \* WithRetry: lastErr
    ret,              \* what WithRetry returned: value and error
    ctx,              \* the context passed to WithRetry: active, Canceled, DeadlineExceeded
    timer,            \* the backoff timer (time.After): none, pending, fired
    fnLog,            \* the outcomes of the invocations of fn so far, in order
    slept,            \* the delays of the backoff sleeps begun so far, in order
    \* --- RateLimiter
    lim,              \* the RateLimiter struct: tokens, maxTokens, refillRate, lastRefill
    mu,               \* RateLimiter.mu: the caller holding it, or NoCaller
    callers,          \* each caller's call: operation, position, context, locals
    tryLog,           \* the outcome and time of every TryAcquire so far, in lock order
    \* --- InMemoryCache
    imc,              \* the InMemoryCache struct: cache (key -> cacheEntry), ttl
    gcall,            \* each goroutine's call on the cache: operation, position, locals
    lastSet,          \* per key, the most recent Set that has returned and no Clear has followed
    \* --- DiffContent
    oldNodes,         \* DiffContent's oldNodes argument
    newNodes,         \* DiffContent's newNodes argument
    diffResult,       \* the DiffResult: Added, Removed, Unchanged, Modified
    dpc,              \* where the diff call stands
    \* --- TranslateBatchParallel
    par,              \* one call of TranslateBatchParallel: arguments, goroutines, channel, locals
    \* --- Exporter and Importer
    xfer,             \* one export and import: source cache, document, target cache, counters
    \* --- concurrent Process calls
    procs             \* the Process call of each goroutine, and the calls that have returned

trVars == <<tr, cache, pc, content, contentType, nodes, idx, translations,
            cacheMisses, seenHashes, cachedCount, translatedCount, results,
            out, obs, prev>>

retryVars == <<cfg, rpc, attempt, lastErr, ret, ctx, timer, fnLog, slept>>

limVars == <<lim, mu, callers, tryLog>>

cacheVars == <<imc, gcall, lastSet>>

diffVars == <<oldNodes, newNodes, diffResult, dpc>>

parVars == <<par>>

xferVars == <<xfer>>

procVars == <<procs>>

\* The locals of the one Process call the Translator section follows.
trLocals == <<pc, content, contentType, nodes, idx, translations, cacheMisses,
              seenHashes, cachedCount, translatedCount, results, out, obs, prev>>

\* What the actions of one component leave unchanged.
exceptTr == <<retryVars, limVars, cacheVars, diffVars, parVars, xferVars, procVars>>
exceptRetry == <<now, trVars, limVars, cacheVars, diffVars, parVars, xferVars, procVars>>
exceptLim == <<trVars, retryVars, cacheVars, diffVars, parVars, xferVars, procVars>>
exceptCache == <<trVars, retryVars, limVars, diffVars, parVars, xferVars, procVars>>
exceptDiff == <<now, trVars, retryVars, limVars, cacheVars, parVars, xferVars, procVars>>
exceptPar == <<now, trVars, retryVars, limVars, cacheVars, diffVars, xferVars, procVars>>
exceptXfer == <<trVars, retryVars, limVars, cacheVars, diffVars, parVars, procVars>>
exceptProcs == <<retryVars, limVars, cacheVars, diffVars, parVars, xferVars>>

\* ---------------------------------------------------------- Translator
\* Language configurations: <<sourceLang, targetLang>>.
en == <<"e", "n">>
en_US == <<"e", "n", "_", "U", "S">>
EN_us == <<"E", "N", "_", "u", "s">>
enUS == <<"e", "n", "-", "U", "S">>
es_ES == <<"e", "s", "_", "E", "S">>
ar_SA == <<"a", "r", "_", "S", "A">>

\* The Translator configurations checked: every value of every option occurs in one.
\* glossary is the map as a list of phrase and preferred translation, alternating;
\* style is NewTranslator's StyleNeutral unless WithStyle changed it.
Translators ==
    { [sourceLang |-> en, targetLang |-> en_US, provider |-> TRUE,
       cache |-> "memory", ttl |-> 0, processors |-> {"html"},
       excludedTerms |-> <<>>, context |-> "",
       glossary |-> <<>>, style |-> "neutral"],
      [sourceLang |-> EN_us, targetLang |-> en, provider |-> TRUE,
       cache |-> "none", ttl |-> 0, processors |-> {"html"},
       excludedTerms |-> <<>>, context |-> "",
       glossary |-> <<>>, style |-> "neutral"],
      [sourceLang |-> enUS, targetLang |-> en, provider |-> TRUE,
       cache |-> "none", ttl |-> 0, processors |-> {"go"},
       excludedTerms |-> <<>>, context |-> "",
       glossary |-> <<>>, style |-> "neutral"],
      [sourceLang |-> en, targetLang |-> es_ES, provider |-> FALSE,
       cache |-> "memory", ttl |-> 0, processors |-> {"html"},
       excludedTerms |-> <<>>, context |-> "",
       glossary |-> <<>>, style |-> "neutral"],
      [sourceLang |-> en, targetLang |-> ar_SA, provider |-> TRUE,
       cache |-> "memory", ttl |-> 0, processors |-> {"html", "go"},
       excludedTerms |-> <<"API">>, context |-> "docs",
       glossary |-> <<"hello", "hola">>, style |-> "formal"],
      [sourceLang |-> en, targetLang |-> es_ES, provider |-> TRUE,
       cache |-> "memory", ttl |-> 1, processors |-> {"html"},
       excludedTerms |-> <<>>, context |-> "",
       glossary |-> <<>>, style |-> "neutral"],
      [sourceLang |-> en, targetLang |-> es_ES, provider |-> TRUE,
       cache |-> "redis", ttl |-> 0, processors |-> {"html"},
       excludedTerms |-> <<>>, context |-> "",
       glossary |-> <<>>, style |-> "neutral"] }

\* The text elements a document is made of: the raw text and its surrounding structure.
ElemPool ==
    { [text |-> <<"H", "i">>, ctx |-> "p"],
      [text |-> <<" ", "H", "i">>, ctx |-> "h1"],
      [text |-> <<"Y", "o">>, ctx |-> "p"] }

RECURSIVE SeqsUpTo(_, _)
SeqsUpTo(S, n) ==
    IF n = 0 THEN {<<>>}
    ELSE LET shorter == SeqsUpTo(S, n - 1)
         IN  shorter \cup {Append(s, e) : s \in {x \in shorter : Len(x) = n - 1}, e \in S}

\* A document: its text elements, and the lang/dir attributes of its root.
Documents == {[elems |-> s, attrs |-> <<>>] : s \in SeqsUpTo(ElemPool, MaxNodes)}

ContentTypes == {"html", "go"}

NoContent == [elems |-> <<>>, attrs |-> <<"nil">>]

\* ProcessedContent, with the error Process returned beside it ("" is nil).
Returned(err, c, translated, cached, total) ==
    [err |-> err, Content |-> c, TranslatedCount |-> translated,
     CachedCount |-> cached, TotalNodes |-> total]

Failed(err) == Returned(err, NoContent, 0, 0, 0)

\* A comparison of the whole tags, as written.
isSourceLangExact(t) == t.targetLang = t.sourceLang

\* isSourceLang: the base tags (before "_", lowercased) of target and source agree.
isSourceLang(t) ==
    ToLower(SplitFirst(t.targetLang)) = ToLower(SplitFirst(t.sourceLang))

\* A lookup that finds a processor for every content type.
HasAnyProcessor(t, ct) == TRUE

\* Process, line 135: processor, ok := t.processors[contentType].
HasProcessor(t, ct) == ct \in t.processors

\* A total that counts fingerprints.
TotalDistinct(ns) == Cardinality({ns[i].Hash : i \in 1..Len(ns)})

\* Process, line 179: TotalNodes: len(nodes).
TotalNodes(ns) == Len(ns)

\* ContentProcessor.Extract: one TextNode per text element, in document order.
Extract(c) ==
    [i \in 1..Len(c.elems) |->
        [ID |-> i, Text |-> TrimSpace(c.elems[i].text),
         Hash |-> HashText(c.elems[i].text), Context |-> c.elems[i].ctx]]

\* ContentProcessor.Apply: every element whose fingerprint has a translation gets it.
Apply(c, ns, tl) ==
    [c EXCEPT !.elems =
        [i \in 1..Len(c.elems) |->
            IF ns[i].Hash \in DOMAIN tl
            THEN [c.elems[i] EXCEPT !.text = tl[ns[i].Hash]]
            ELSE c.elems[i]]]

\* setHTMLAttributes: lang and dir on the <html> tag.
setHTMLAttributes(t, c) ==
    [c EXCEPT !.attrs = <<ToHTMLLang(t.targetLang), GetDirection(t.targetLang)>>]

\* InMemoryCache.Get at time t: [found, value, cache, expired].
MemoryGet(c, ttl, key, t) ==
    IF key \notin DOMAIN c
    THEN [found |-> FALSE, value |-> <<>>, cache |-> c, expired |-> FALSE]
    ELSE IF ttl > 0 /\ t - c[key].timestamp > ttl
    THEN [found |-> FALSE, value |-> <<>>, cache |-> MapDel(c, key), expired |-> TRUE]
    ELSE [found |-> TRUE, value |-> c[key].value, cache |-> c, expired |-> FALSE]

\* A cache that drops what it is given.
MemorySetDropped(c, key, value, t) == c

\* InMemoryCache.Set at time t.
MemorySet(c, key, value, t) == MapPut(c, key, [value |-> value, timestamp |-> t])

\* RedisCache.Get: a miss when the key is absent or the command fails.
RedisGet(c, key, fails) ==
    IF fails \/ key \notin DOMAIN c
    THEN [found |-> FALSE, value |-> <<>>, cache |-> c, expired |-> FALSE]
    ELSE [found |-> TRUE, value |-> c[key].value, cache |-> c, expired |-> FALSE]

\* A store that keeps the value although the command reports a failure.
RedisSetAlways(c, key, value, t, fails) == MapPut(c, key, [value |-> value, timestamp |-> t])

\* RedisCache.Set: stores unless the command fails (the error is returned).
RedisSet(c, key, value, t, fails) ==
    IF fails THEN c ELSE MapPut(c, key, [value |-> value, timestamp |-> t])

\* A cache that finds nothing.
CacheGetNothing(t, c, key, time, fails) ==
    [found |-> FALSE, value |-> <<>>, cache |-> c, expired |-> FALSE]

\* TranslationCache.Get through the interface.
CacheGet(t, c, key, time, fails) ==
    IF t.cache = "redis" THEN RedisGet(c, key, fails)
    ELSE MemoryGet(c, t.ttl, key, time)

\* TranslationCache.Set through the interface.
CacheSet(t, c, key, value, time, fails) ==
    IF t.cache = "redis" THEN RedisSet(c, key, value, time, fails)
    ELSE MemorySet(c, key, value, time)

\* The outcomes a cache command can have: only the remote store can fail.
CacheFaults(t, faults) ==
    IF t.cache = "redis" /\ faults < MaxFaults THEN BOOLEAN ELSE {FALSE}

\* No miss joins cacheMisses.
AppendMissNever(misses, seen, node) == misses

\* Every miss joins cacheMisses.
AppendMissAlways(misses, seen, node) == Append(misses, node)

\* translateBatch, lines 207-211: a miss joins cacheMisses on the first miss of its hash.
AppendMiss(misses, seen, node) ==
    IF node.Hash \notin seen THEN Append(misses, node) ELSE misses

\* A request without the per-text contexts.
TranslateRequestNoContexts(t, misses) ==
    [Texts |-> [i \in 1..Len(misses) |-> misses[i].Text],
     TextContexts |-> <<>>,
     TargetLang |-> t.targetLang, SourceLang |-> t.sourceLang,
     ExcludedTerms |-> t.excludedTerms, Context |-> t.context,
     Glossary |-> t.glossary, Style |-> t.style]

\* translateBatch, lines 217-233: the request built from cacheMisses.
TranslateRequest(t, misses) ==
    [Texts |-> [i \in 1..Len(misses) |-> misses[i].Text],
     TextContexts |-> [i \in 1..Len(misses) |-> misses[i].Context],
     TargetLang |-> t.targetLang, SourceLang |-> t.sourceLang,
     ExcludedTerms |-> t.excludedTerms, Context |-> t.context,
     Glossary |-> t.glossary, Style |-> t.style]

\* A backend's answer to texts: translation number v of each, with `delta` results
\* too many (or, negative, too few).
BackendResults(texts, v, delta) ==
    [i \in 1..(Len(texts) + delta) |->
        IF i <= Len(texts) THEN <<v>> \o texts[i] ELSE <<v>>]

\* The zero TranslateRequest.
NoRequest ==
    [Texts |-> <<>>, TextContexts |-> <<>>, TargetLang |-> <<>>, SourceLang |-> <<>>,
     ExcludedTerms |-> <<>>, Context |-> "", Glossary |-> <<>>, Style |-> ""]

NoObs ==
    [calls |-> 0, backendCalls |-> 0, request |-> NoRequest,
     cacheGets |-> 0, cacheSets |-> 0, lookups |-> 0, extracts |-> 0, applies |-> 0,
     setFailed |-> FALSE, getFailed |-> FALSE, expired |-> FALSE, faults |-> 0,
     missed |-> <<>>, cache0 |-> EmptyMap, applied |-> EmptyMap,
     errContentType |-> "", returned |-> -1,
     parsed |-> NoContent, applyParsed |-> NoContent, applyNodes |-> <<>>]

NoPrev == [valid |-> FALSE, same |-> FALSE, err |-> "none", TotalNodes |-> 0,
           setFailed |-> FALSE]

\* NewTranslator with its options, and the cache it is given (NewInMemoryCache).
TrInit ==
    /\ tr \in Translators
    /\ cache = EmptyMap
    /\ pc = "idle"
    /\ content = NoContent
    /\ contentType = ""
    /\ nodes = <<>>
    /\ idx = 0
    /\ translations = EmptyMap
    /\ cacheMisses = <<>>
    /\ seenHashes = {}
    /\ cachedCount = 0
    /\ translatedCount = 0
    /\ results = <<>>
    /\ out = Failed("none")
    /\ obs = NoObs
    /\ prev = NoPrev

\* Process, lines 123-162: the short-circuit, the processor lookup and Extract.
ProcessStart(c, ct, extractFails) ==
    /\ pc \in {"idle", "done"}
    /\ obs.calls < MaxProcessCalls
    /\ prev' = IF pc = "done"
               THEN [valid |-> TRUE, same |-> (c = content /\ ct = contentType),
                     err |-> out.err, TotalNodes |-> out.TotalNodes,
                     setFailed |-> obs.setFailed]
               ELSE prev
    /\ content' = c
    /\ contentType' = ct
    /\ idx' = 1
    /\ translations' = EmptyMap
    /\ cacheMisses' = <<>>
    /\ seenHashes' = {}
    /\ cachedCount' = 0
    /\ translatedCount' = 0
    /\ results' = <<>>
    /\ LET o == [NoObs EXCEPT !.calls = obs.calls + 1, !.cache0 = cache,
                              !.faults = obs.faults]
       IN  IF isSourceLang(tr)
           THEN /\ out' = Returned("", c, 0, 0, 0)
                /\ obs' = o
                /\ nodes' = <<>>
                /\ pc' = "done"
           ELSE IF ~HasProcessor(tr, ct)
           THEN /\ out' = Failed("ProcessorError")
                /\ obs' = [o EXCEPT !.lookups = 1, !.errContentType = ct]
                /\ nodes' = <<>>
                /\ pc' = "done"
           ELSE IF extractFails
           THEN /\ out' = Failed("ExtractError")
                /\ obs' = [o EXCEPT !.lookups = 1, !.extracts = 1]
                /\ nodes' = <<>>
                /\ pc' = "done"
           ELSE IF Len(Extract(c)) = 0
           THEN /\ out' = Returned("", c, 0, 0, 0)
                /\ obs' = [o EXCEPT !.lookups = 1, !.extracts = 1, !.parsed = c]
                /\ nodes' = <<>>
                /\ pc' = "done"
           ELSE /\ out' = Failed("none")
                /\ obs' = [o EXCEPT !.lookups = 1, !.extracts = 1, !.parsed = c]
                /\ nodes' = Extract(c)
                /\ pc' = "lookup"
    /\ UNCHANGED <<exceptTr, now, tr, cache>>

\* A loop that ends after its first iteration.
AfterFirstLookup(i, n) == "dispatch"

\* translateBatch, line 196: the range over nodes goes on until the last node.
AfterLookup(i, n) == IF i = n THEN "dispatch" ELSE "lookup"

\* translateBatch, lines 196-212: one iteration of the cache-check loop.
LookupStep(fails) ==
    /\ pc = "lookup"
    /\ LET node == nodes[idx]
       IN  IF tr.cache # "none"
           THEN LET r == CacheGet(tr, cache, CacheKey(node.Hash, tr.targetLang), now, fails)
                IN  /\ cache' = r.cache
                    /\ obs' = [obs EXCEPT !.cacheGets = @ + 1,
                                          !.getFailed = @ \/ fails,
                                          !.faults = IF fails THEN @ + 1 ELSE @,
                                          !.expired = @ \/ r.expired,
                                          !.missed = IF r.found THEN @ ELSE Append(@, idx)]
                    /\ IF r.found
                       THEN /\ translations' = MapPut(translations, node.Hash, r.value)
                            /\ cachedCount' = cachedCount + 1
                            /\ UNCHANGED <<cacheMisses, seenHashes>>
                       ELSE /\ cacheMisses' = AppendMiss(cacheMisses, seenHashes, node)
                            /\ seenHashes' = seenHashes \cup {node.Hash}
                            /\ UNCHANGED <<translations, cachedCount>>
           ELSE /\ cacheMisses' = AppendMiss(cacheMisses, seenHashes, node)
                /\ seenHashes' = seenHashes \cup {node.Hash}
                /\ obs' = [obs EXCEPT !.missed = Append(@, idx)]
                /\ UNCHANGED <<cache, translations, cachedCount>>
    /\ idx' = IF idx = Len(nodes) THEN 1 ELSE idx + 1
    /\ pc' = AfterLookup(idx, Len(nodes))
    /\ UNCHANGED <<exceptTr, now, tr, content, contentType, nodes, translatedCount, results, out, prev>>

\* translateBatch, lines 216-233: the one call of provider.Translate, if any.
Dispatch ==
    /\ pc = "dispatch"
    /\ IF Len(cacheMisses) > 0 /\ tr.provider
       THEN /\ obs' = [obs EXCEPT !.backendCalls = @ + 1,
                                  !.request = TranslateRequest(tr, cacheMisses)]
            /\ pc' = "backend"
       ELSE /\ obs' = obs
            /\ pc' = "apply"
    /\ UNCHANGED <<exceptTr, now, tr, cache, content, contentType, nodes, idx, translations,
                   cacheMisses, seenHashes, cachedCount, translatedCount, results, out, prev>>

\* provider.Translate returns: an error (lines 234-236) or a list of results.
BackendReturn(fails, v, delta) ==
    /\ pc = "backend"
    /\ IF fails
       THEN /\ out' = Failed("ProviderError")
            /\ results' = <<>>
            /\ obs' = obs
            /\ pc' = "done"
       ELSE /\ results' = BackendResults(obs.request.Texts, v, delta)
            /\ out' = out
            /\ obs' = [obs EXCEPT !.returned = Len(obs.request.Texts) + delta]
            /\ pc' = "writeback"
    /\ UNCHANGED <<exceptTr, now, tr, cache, content, contentType, nodes, idx, translations,
                   cacheMisses, seenHashes, cachedCount, translatedCount, prev>>

\* A write-back loop that ends after its first iteration.
AfterFirstWriteBack(i, n) == "apply"

\* translateBatch, line 239: the range over cacheMisses goes on until the last miss.
AfterWriteBack(i, n) == IF i = n THEN "apply" ELSE "writeback"

\* translateBatch, lines 239-246: one iteration of the write-back loop.  results[i]
\* past the end of results is a run-time panic (index out of range).
WriteBackStep(fails) ==
    /\ pc = "writeback"
    /\ IF idx > Len(results)
       THEN /\ pc' = "panic"
            /\ UNCHANGED <<cache, translations, translatedCount, obs, idx>>
       ELSE LET node == cacheMisses[idx]
            IN  /\ translations' = MapPut(translations, node.Hash, results[idx])
                /\ IF tr.cache # "none"
                   THEN /\ cache' = CacheSet(tr, cache, CacheKey(node.Hash, tr.targetLang),
                                             results[idx], now, fails)
                        /\ obs' = [obs EXCEPT !.cacheSets = @ + 1, !.setFailed = @ \/ fails,
                                              !.faults = IF fails THEN @ + 1 ELSE @]
                   ELSE /\ cache' = cache
                        /\ obs' = obs
                /\ translatedCount' = translatedCount + 1
                /\ idx' = idx + 1
                /\ pc' = AfterWriteBack(idx, Len(cacheMisses))
    /\ UNCHANGED <<exceptTr, now, tr, content, contentType, nodes, cacheMisses, seenHashes,
                   cachedCount, results, out, prev>>

\* Process, lines 164-180: Apply, the HTML attributes, and the result.
ApplyStep(fails) ==
    /\ pc = "apply"
    /\ obs' = [obs EXCEPT !.applies = @ + 1, !.applied = translations,
                          !.applyParsed = content, !.applyNodes = nodes]
    /\ out' = IF fails THEN Failed("ApplyError")
              ELSE LET applied == Apply(content, nodes, translations)
                   IN  Returned("",
                                IF contentType = "html" THEN setHTMLAttributes(tr, applied)
                                ELSE applied,
                                translatedCount, cachedCount, TotalNodes(nodes))
    /\ pc' = "done"
    /\ UNCHANGED <<exceptTr, now, tr, cache, content, contentType, nodes, idx, translations,
                   cacheMisses, seenHashes, cachedCount, translatedCount, results, prev>>

\* Time passes.
Tick ==
    /\ now < MaxTime
    /\ now' = now + 1

\* Time passing while the Translator runs: only an expiring cache reads the clock.
TrTick ==
    /\ tr.ttl > 0
    /\ Tick
    /\ UNCHANGED <<trVars, exceptTr>>

\* What a backend may answer: an error, or results (of one of two wordings), the
\* right number of them, one too few or one too many.
BackendOutcomes ==
    {<<TRUE, 1, 0>>, <<FALSE, 1, 0>>, <<FALSE, 2, 0>>, <<FALSE, 1, -1>>, <<FALSE, 1, 1>>}

\* ----------------------------------------------------------- WithRetry
\* An error is its chain of wrapped errors, outermost first (errors.Unwrap), and the
\* number of the invocation that returned it; nil has the empty chain.
\* "ProviderError+" is a *ProviderError with Retryable set, "ProviderError-" one without.
ErrorChains ==
    { <<"ProviderError+">>, <<"ProviderError-">>, <<"error">>,
      <<"Canceled">>, <<"DeadlineExceeded">>,
      <<"ProviderError+", "Canceled">>, <<"ProviderError-", "ProviderError+">>,
      <<"error", "ProviderError+">> }

Nil == <<>>

IsProviderError(layer) == layer \in {"ProviderError+", "ProviderError-"}

\* IsRetryable: the Retryable flag of the first *ProviderError in the chain
\* (errors.As), false when there is none.
IsRetryable(err) ==
    IF err = Nil THEN FALSE
    ELSE IF \E i \in 1..Len(err) : IsProviderError(err[i])
    THEN LET first == CHOOSE i \in 1..Len(err) :
                         /\ IsProviderError(err[i])
                         /\ \A j \in 1..(i - 1) : ~IsProviderError(err[j])
         IN  err[first] = "ProviderError+"
    ELSE FALSE

\* ctx.Err()
CtxErr(c) == <<c>>

\* What one invocation of fn returns: a value (its number, never the zero value 0)
\* and an error.
FnOutcomes(n) == {[value |-> n, err |-> e, id |-> n] : e \in ErrorChains \cup {Nil}}

\* time.Duration is a signed 64-bit count of nanoseconds.  The model counts durations
\* in a unit so large that the 64 bits leave DurationBits of them for the count of
\* units; arithmetic on whole units wraps exactly as the 64-bit arithmetic does.
WrapDuration(x) ==
    LET half == 2 ^ (DurationBits - 1)
    IN  ((x + half) % (2 * half)) - half

\* WithRetry, lines 55-58: the delay before the retry that follows `attempt`.
Delay(c, att) ==
    LET delay == WrapDuration(c.BaseDelay * (2 ^ att))
    IN  IF delay > c.MaxDelay THEN c.MaxDelay ELSE delay

\* A loop that runs one attempt short.
LoopConditionStrict(c, att) == att < c.MaxRetries

\* WithRetry, line 33: the loop condition.
LoopCondition(c, att) == att <= c.MaxRetries

\* WithRetry, line 54: whether a sleep follows this attempt.
SleepsAfter(c, att) == att < c.MaxRetries

RetryConfigs ==
    {[MaxRetries |-> n, BaseDelay |-> b, MaxDelay |-> m] :
        n \in -1..MaxRetriesBound, b \in {0, 1, 2 ^ (DurationBits - 2)}, m \in {1, 3}}

RetryIdle ==
    /\ cfg = [MaxRetries |-> 0, BaseDelay |-> 0, MaxDelay |-> 0]
    /\ rpc = "off"
    /\ attempt = 0
    /\ lastErr = [err |-> Nil, id |-> 0]
    /\ ret = [value |-> 0, err |-> Nil, id |-> 0]
    /\ ctx = "active"
    /\ timer = "none"
    /\ fnLog = <<>>
    /\ slept = <<>>

\* WithRetry is called: lines 30-33.  The context may be cancelled already.
RetryInit ==
    /\ cfg \in RetryConfigs
    /\ rpc = "loop"
    /\ attempt = 0
    /\ lastErr = [err |-> Nil, id |-> 0]
    /\ ret = [value |-> 0, err |-> Nil, id |-> 0]
    /\ ctx \in {"active", "Canceled"}
    /\ timer = "none"
    /\ fnLog = <<>>
    /\ slept = <<>>

\* WithRetry, lines 33-41 and 68: the top of the loop.  Past the last attempt the
\* function returns lastErr; with the context done it returns ctx.Err(); else it
\* invokes fn.
RetryLoop ==
    /\ rpc = "loop"
    /\ IF ~LoopCondition(cfg, attempt)
       THEN /\ ret' = [value |-> 0, err |-> lastErr.err, id |-> lastErr.id]
            /\ rpc' = "done"
       ELSE IF ctx # "active"
       THEN /\ ret' = [value |-> 0, err |-> CtxErr(ctx), id |-> 0]
            /\ rpc' = "done"
       ELSE /\ ret' = ret
            /\ rpc' = "calling"
    /\ UNCHANGED <<cfg, attempt, lastErr, ctx, timer, fnLog, slept>>
    /\ UNCHANGED exceptRetry

\* WithRetry, lines 41-65: fn returns.  Success and a non-retryable error return at
\* once; a retryable error is followed by a backoff sleep, except after the last
\* attempt, where the loop ends and lastErr is returned (line 68).
RetryFnReturns(o) ==
    /\ rpc = "calling"
    /\ fnLog' = Append(fnLog, o)
    /\ IF o.err = Nil
       THEN /\ ret' = [value |-> o.value, err |-> Nil, id |-> 0]
            /\ rpc' = "done"
            /\ UNCHANGED <<lastErr, attempt, timer, slept>>
       ELSE /\ lastErr' = [err |-> o.err, id |-> o.id]
            /\ IF ~IsRetryable(o.err)
               THEN /\ ret' = [value |-> 0, err |-> o.err, id |-> o.id]
                    /\ rpc' = "done"
                    /\ UNCHANGED <<attempt, timer, slept>>
               ELSE IF SleepsAfter(cfg, attempt)
               THEN /\ rpc' = "sleep"
                    /\ timer' = IF Delay(cfg, attempt) > 0 THEN "pending" ELSE "fired"
                    /\ slept' = Append(slept, Delay(cfg, attempt))
                    /\ UNCHANGED <<ret, attempt>>
               ELSE /\ attempt' = attempt + 1
                    /\ rpc' = "loop"
                    /\ UNCHANGED <<ret, timer, slept>>
    /\ UNCHANGED <<cfg, ctx>>
    /\ UNCHANGED exceptRetry

\* WithRetry, lines 60-62: the select takes <-ctx.Done().
RetryWakeCancelled ==
    /\ rpc = "sleep"
    /\ ctx # "active"
    /\ ret' = [value |-> 0, err |-> CtxErr(ctx), id |-> 0]
    /\ rpc' = "done"
    /\ timer' = "none"
    /\ UNCHANGED <<cfg, attempt, lastErr, ctx, fnLog, slept>>
    /\ UNCHANGED exceptRetry

\* WithRetry, lines 63-66: the select takes <-time.After(delay); the next attempt.
RetryWakeTimer ==
    /\ rpc = "sleep"
    /\ timer = "fired"
    /\ attempt' = attempt + 1
    /\ rpc' = "loop"
    /\ timer' = "none"
    /\ UNCHANGED <<cfg, lastErr, ret, ctx, fnLog, slept>>
    /\ UNCHANGED exceptRetry

\* The delay elapses.
TimerFires ==
    /\ timer = "pending"
    /\ timer' = "fired"
    /\ UNCHANGED <<cfg, rpc, attempt, lastErr, ret, ctx, fnLog, slept>>
    /\ UNCHANGED exceptRetry

\* The context is cancelled, or its deadline passes.
CtxDone(c) ==
    /\ ctx = "active"
    /\ rpc # "done"
    /\ ctx' = c
    /\ UNCHANGED <<cfg, rpc, attempt, lastErr, ret, timer, fnLog, slept>>
    /\ UNCHANGED exceptRetry

\* --------------------------------------------------------- RateLimiter
\* Token counts are kept in sixtieths of a token, so that rpm / 60 tokens per second
\* is rpm sixtieths per second and the arithmetic is exact.
TokenUnit == 60

Callers == {"c1", "c2"}

NoCaller == "none"

\* NewRateLimiter at time t.
NewRateLimiter(config, t) ==
    LET rpm == IF config.RequestsPerMinute <= 0 THEN 60 ELSE config.RequestsPerMinute
        burst == IF config.BurstSize <= 0 THEN rpm ELSE config.BurstSize
    IN  [tokens |-> burst * TokenUnit, maxTokens |-> burst * TokenUnit,
         refillRate |-> rpm, lastRefill |-> t]

\* A refill that adds nothing.
refillNothing(r, t) == [r EXCEPT !.lastRefill = t]

\* A refill that does not stop at maxTokens.
refillUncapped(r, t) ==
    [r EXCEPT !.lastRefill = t, !.tokens = @ + (t - r.lastRefill) * r.refillRate]

\* refill at time t: the tokens of the elapsed time, up to maxTokens.
refill(r, t) ==
    LET elapsed == t - r.lastRefill
        tokens == r.tokens + elapsed * r.refillRate
    IN  [r EXCEPT !.lastRefill = t,
                  !.tokens = IF tokens > r.maxTokens THEN r.maxTokens ELSE tokens]

\* A test that takes a fraction of a token for a token.
HasAnyToken(r) == r.tokens > 0

\* TryAcquire, line 73: a whole token is there.
HasToken(r) == r.tokens >= 1 * TokenUnit

\* No mutual exclusion: Lock returns at once.
NoMutex(m) == TRUE

\* sync.Mutex: Lock returns once nobody holds the mutex.
CanLock(m) == m = NoCaller

\* Wait, line 53: the time to produce one token, in seconds.
WaitTime(r) == TokenUnit \div r.refillRate

\* A wait that does not look at the context.
NeverDone(cx) == FALSE

\* <-ctx.Done() is ready: the context is cancelled or past its deadline.
Done(cx) == cx # "active"

\* The same error with Retryable set.
RateLimitErrorRetryable(err) == <<"ProviderError+">> \o err

\* RateLimitedProvider.Translate, lines 119-123: the error for a cancelled wait.
RateLimitError(err) == <<"ProviderError-">> \o err

RateLimitConfigs ==
    { [RequestsPerMinute |-> 0, BurstSize |-> 1],
      [RequestsPerMinute |-> 30, BurstSize |-> 1],
      [RequestsPerMinute |-> 30, BurstSize |-> 2],
      [RequestsPerMinute |-> 20, BurstSize |-> 0] }

IdleCaller ==
    [op |-> "", pc |-> "idle", ctx |-> "active", wakeAt |-> 0, ok |-> FALSE,
     taken |-> 0, inner |-> 0, err |-> Nil, n |-> 0]

LimIdle ==
    /\ lim = NewRateLimiter([RequestsPerMinute |-> 0, BurstSize |-> 0], 0)
    /\ mu = NoCaller
    /\ callers = [c \in Callers |-> [IdleCaller EXCEPT !.pc = "off"]]
    /\ tryLog = <<>>

LimInit ==
    /\ \E config \in RateLimitConfigs : lim = NewRateLimiter(config, 0)
    /\ mu = NoCaller
    /\ callers = [c \in Callers |-> IdleCaller]
    /\ tryLog = <<>>

OpsStarted == callers["c1"].n + callers["c2"].n

\* A caller calls TryAcquire, Wait(ctx) or RateLimitedProvider.Translate(ctx, req).
Call(c, op) ==
    /\ callers[c].pc \in {"idle", "done"}
    /\ OpsStarted < MaxOps
    /\ callers' = [callers EXCEPT ![c] =
                      [IdleCaller EXCEPT !.op = op, !.pc = "lock",
                                         !.n = callers[c].n + 1]]
    /\ UNCHANGED <<now, lim, mu, tryLog, exceptLim>>

\* TryAcquire, line 68: r.mu.Lock().
Lock(c) ==
    /\ callers[c].pc = "lock"
    /\ CanLock(mu)
    /\ mu' = c
    /\ callers' = [callers EXCEPT ![c].pc = "refill"]
    /\ UNCHANGED <<now, lim, tryLog, exceptLim>>

\* TryAcquire, line 71: r.refill().
Refill(c) ==
    /\ callers[c].pc = "refill"
    /\ lim' = refill(lim, now)
    /\ callers' = [callers EXCEPT ![c].pc = "test"]
    /\ UNCHANGED <<now, mu, tryLog, exceptLim>>

\* TryAcquire, line 73: if r.tokens >= 1.
TestStep(c) ==
    /\ callers[c].pc = "test"
    /\ callers' = [callers EXCEPT ![c].ok = HasToken(lim),
                                  ![c].pc = IF HasToken(lim) THEN "take" ELSE "unlock"]
    /\ UNCHANGED <<now, lim, mu, exceptLim>>

\* TryAcquire, line 73, with the decision and its time written to tryLog.
Test(c) ==
    /\ TestStep(c)
    /\ tryLog' = Append(tryLog, [ok |-> HasToken(lim), t |-> lim.lastRefill])

\* TryAcquire, line 73, with no record kept.
FairTest(c) ==
    /\ TestStep(c)
    /\ UNCHANGED tryLog

\* TryAcquire, line 74: r.tokens--.
Take(c) ==
    /\ callers[c].pc = "take"
    /\ lim' = [lim EXCEPT !.tokens = @ - 1 * TokenUnit]
    /\ callers' = [callers EXCEPT ![c].taken = @ + 1, ![c].pc = "unlock"]
    /\ UNCHANGED <<now, mu, tryLog, exceptLim>>

\* TryAcquire, line 69: the deferred r.mu.Unlock(), and what the caller of
\* TryAcquire does with its result (Wait, lines 47-49; Translate, lines 118-126).
Unlock(c) ==
    /\ callers[c].pc = "unlock"
    /\ mu' = IF mu = c THEN NoCaller ELSE mu
    /\ callers' = [callers EXCEPT ![c].pc =
                      IF callers[c].op = "TryAcquire" THEN "done"
                      ELSE IF ~callers[c].ok THEN "waittime"
                      ELSE IF callers[c].op = "Wait" THEN "done"
                      ELSE "forward"]
    /\ UNCHANGED <<now, lim, tryLog, exceptLim>>

\* Wait, lines 52-54: the wait time, read under the mutex; the select begins.
ReadWaitTime(c) ==
    /\ callers[c].pc = "waittime"
    /\ CanLock(mu)
    /\ callers' = [callers EXCEPT ![c].wakeAt = now + WaitTime(lim), ![c].pc = "select"]
    /\ UNCHANGED <<now, lim, mu, tryLog, exceptLim>>

\* Wait, lines 57-58: the select takes <-ctx.Done(); Wait returns ctx.Err(), which
\* Translate wraps (lines 119-123).
WaitCancelled(c) ==
    /\ callers[c].pc = "select"
    /\ Done(callers[c].ctx)
    /\ callers' = [callers EXCEPT ![c].err =
                      IF callers[c].op = "Wait" THEN CtxErr(callers[c].ctx)
                      ELSE RateLimitError(CtxErr(callers[c].ctx)),
                                  ![c].pc = "done"]
    /\ UNCHANGED <<now, lim, mu, tryLog, exceptLim>>

\* Wait, lines 59-61: the select takes <-time.After(waitTime); TryAcquire again.
WaitTimer(c) ==
    /\ callers[c].pc = "select"
    /\ now >= callers[c].wakeAt
    /\ callers' = [callers EXCEPT ![c].pc = "lock"]
    /\ UNCHANGED <<now, lim, mu, tryLog, exceptLim>>

\* Translate, line 126: the wrapped provider's Translate is invoked and returns.
Forward(c, err) ==
    /\ callers[c].pc = "forward"
    /\ callers' = [callers EXCEPT ![c].inner = @ + 1, ![c].err = err, ![c].pc = "done"]
    /\ UNCHANGED <<now, lim, mu, tryLog, exceptLim>>

\* A caller's context is cancelled, at any moment from the call on: a context that is
\* done when Wait is entered is one cancelled before the first step.
Cancel(c) ==
    /\ callers[c].pc \notin {"idle", "done"}
    /\ callers[c].op # "TryAcquire"
    /\ callers[c].ctx = "active"
    /\ callers' = [callers EXCEPT ![c].ctx = "Canceled"]
    /\ UNCHANGED <<now, lim, mu, tryLog, exceptLim>>

\* Time passing for the limiter.
LimTick ==
    /\ Tick
    /\ UNCHANGED <<limVars, exceptLim>>

\* refill, lines 84-90: the elapsed time after which the bucket is full whatever it
\* held.
FullAfter(r) == (r.maxTokens + r.refillRate - 1) \div r.refillRate

\* A call by a caller whose calls are not counted.
FairCall(c, op) ==
    /\ callers[c].pc \in {"idle", "done"}
    /\ callers' = [callers EXCEPT ![c] = [IdleCaller EXCEPT !.op = op, !.pc = "lock"]]
    /\ UNCHANGED <<now, lim, mu, tryLog, exceptLim>>

\* Time passing without end.  The code reads the clock only to take differences
\* (refill, line 84; time.After, line 59), so a second that passes is modelled by
\* moving lastRefill and the pending timers one second into the past while `now`
\* stays; lastRefill stops where a refill fills the bucket anyway, and a timer where
\* it has fired.
FairTick ==
    /\ lim' = [lim EXCEPT !.lastRefill =
                   IF @ - 1 < now - FullAfter(lim) THEN now - FullAfter(lim) ELSE @ - 1]
    /\ callers' = [c \in Callers |->
                      [callers[c] EXCEPT !.wakeAt = IF @ <= now THEN @ ELSE @ - 1]]
    /\ UNCHANGED <<now, mu, tryLog, exceptLim>>

\* --------------------------------------------------------- DiffContent
NoDiff == [Added |-> <<>>, Removed |-> <<>>, Unchanged |-> <<>>, Modified |-> <<>>]

DiffIdle ==
    /\ oldNodes = <<>>
    /\ newNodes = <<>>
    /\ diffResult = NoDiff
    /\ dpc = "off"

\* TextNode as the diff reads it: ID, Hash and Context.  IDs are unique within one
\* extraction; fingerprints and contexts may repeat.
DiffIDs == 1..MaxDiffNodes

DiffHashes == {"hash1", "hash2", "hash3"}

DiffContexts == {"", "in <p>"}

DiffNodes == [ID : DiffIDs, Hash : DiffHashes, Context : DiffContexts]

\* The collections a caller may pass: up to MaxDiffNodes nodes, no ID twice.
Collections ==
    UNION { {ns \in [1..n -> DiffNodes] : \A i, j \in 1..n : ns[i].ID = ns[j].ID => i = j}
            : n \in 0..MaxDiffNodes }

\* DiffContent, lines 65-73: the map from hash to node; a later node of the same hash
\* overwrites an earlier one.
ByHash(ns) ==
    LET hs == {ns[i].Hash : i \in 1..Len(ns)}
        last(h) == CHOOSE i \in 1..Len(ns) :
                      /\ ns[i].Hash = h
                      /\ \A j \in 1..Len(ns) : ns[j].Hash = h => j <= i
    IN  [h \in hs |-> ns[last(h)]]

\* The orders in which a range over map m may visit its keys.
IterationOrders(m) ==
    LET n == Cardinality(DOMAIN m)
    IN  {o \in [1..n -> DOMAIN m] : \A i, j \in 1..n : o[i] = o[j] => i = j}

\* A lookup that finds every hash.
ExistsAlways(m, hash) == TRUE

\* DiffContent, lines 77 and 86: _, exists := m[hash].
Exists(m, hash) == hash \in DOMAIN m

\* The nodes of map m visited in order o whose hash is in keep.
Visit(m, o, keep) ==
    LET F[k \in 0..Len(o)] ==
            IF k = 0 THEN <<>>
            ELSE IF o[k] \in keep THEN Append(F[k - 1], m[o[k]]) ELSE F[k - 1]
    IN  F[Len(o)]

\* DiffContent, lines 61-92, with the two maps visited in the orders po and pn.
DiffOf(olds, news, po, pn) ==
    LET oldByHash == ByHash(olds)
        newByHash == ByHash(news)
        inNew == {h \in DOMAIN oldByHash : Exists(newByHash, h)}
        notInNew == {h \in DOMAIN oldByHash : ~Exists(newByHash, h)}
        notInOld == {h \in DOMAIN newByHash : ~Exists(oldByHash, h)}
    IN  [Added |-> Visit(newByHash, pn, notInOld),
         Removed |-> Visit(oldByHash, po, notInNew),
         Unchanged |-> Visit(oldByHash, po, inNew),
         Modified |-> <<>>]

\* DiffResult.HasChanges.
HasChanges(d) == Len(d.Added) > 0 \/ Len(d.Removed) > 0 \/ Len(d.Modified) > 0

\* DiffContentWithContext, lines 111 and 122: the removed and the added node match.
Matches(removed, added) ==
    \/ removed.ID = added.ID
    \/ removed.Context # "" /\ removed.Context = added.Context

\* A loop that forgets which added nodes it has matched.
MatchLoopRematching(removed, added) ==
    LET F[ri \in 0..Len(removed)] ==
            IF ri = 0
            THEN [matched |-> {}, removedMatched |-> {}, Modified |-> <<>>]
            ELSE LET p == F[ri - 1]
                     cand == {ai \in 1..Len(added) : Matches(removed[ri], added[ai])}
                 IN  IF cand = {} THEN p
                     ELSE LET ai == CHOOSE a \in cand : \A b \in cand : a <= b
                          IN  [matched |-> p.matched \cup {ai},
                               removedMatched |-> p.removedMatched \cup {ri},
                               Modified |-> Append(p.Modified,
                                                   [Old |-> removed[ri], New |-> added[ai]])]
    IN  F[Len(removed)]

\* DiffContentWithContext, lines 104-132: for each removed node in turn, the first
\* added node not yet matched that matches it.  [matched, removedMatched, Modified].
MatchLoop(removed, added) ==
    LET F[ri \in 0..Len(removed)] ==
            IF ri = 0
            THEN [matched |-> {}, removedMatched |-> {}, Modified |-> <<>>]
            ELSE LET p == F[ri - 1]
                     cand == {ai \in 1..Len(added) :
                                 ai \notin p.matched /\ Matches(removed[ri], added[ai])}
                 IN  IF cand = {} THEN p
                     ELSE LET ai == CHOOSE a \in cand : \A b \in cand : a <= b
                          IN  [matched |-> p.matched \cup {ai},
                               removedMatched |-> p.removedMatched \cup {ri},
                               Modified |-> Append(p.Modified,
                                                   [Old |-> removed[ri], New |-> added[ai]])]
    IN  F[Len(removed)]

\* DiffContentWithContext, lines 135-149: the nodes of ns whose index is not in drop.
Unmatched(ns, drop) ==
    LET F[k \in 0..Len(ns)] ==
            IF k = 0 THEN <<>>
            ELSE IF k \in drop THEN F[k - 1] ELSE Append(F[k - 1], ns[k])
    IN  F[Len(ns)]

\* DiffContentWithContext, lines 99-152, applied to the result d of line 97.
WithContextOf(d) ==
    IF Len(d.Added) > 0 /\ Len(d.Removed) > 0
    THEN LET m == MatchLoop(d.Removed, d.Added)
         IN  [Added |-> Unmatched(d.Added, m.matched),
              Removed |-> Unmatched(d.Removed, m.removedMatched),
              Unchanged |-> d.Unchanged,
              Modified |-> m.Modified]
    ELSE d

\* A result that lists the added nodes only.
NeedsTranslationAddedOnly(d) == d.Added

\* DiffResult.NeedsTranslation: Added, then the New side of every Modified pair.
NeedsTranslation(d) == d.Added \o [k \in 1..Len(d.Modified) |-> d.Modified[k].New]

\* TextNode.ID of a node built without one, as the callers of DiffContent may: "".
EmptyID == 0

\* Nodes with and without an ID, in three contexts.
NodesAnyID ==
    [ID : {EmptyID, 1}, Hash : DiffHashes, Context : DiffContexts \cup {"in <h1>"}]

\* Collections of up to MaxDiffNodes such nodes, no ID but the empty one twice.
CollectionsAnyID ==
    UNION { {ns \in [1..n -> NodesAnyID] :
                \A i, j \in 1..n : (ns[i].ID = ns[j].ID /\ ns[i].ID # EmptyID) => i = j}
            : n \in 0..MaxDiffNodes }

\* A caller holds two collections of nodes.
DiffInit ==
    /\ oldNodes \in Collections
    /\ newNodes \in Collections
    /\ diffResult = NoDiff
    /\ dpc = "start"

\* DiffContent(oldNodes, newNodes) returns (also line 97 of DiffContentWithContext).
DiffContent(po, pn) ==
    /\ dpc = "start"
    /\ diffResult' = DiffOf(oldNodes, newNodes, po, pn)
    /\ dpc' = "diffed"
    /\ UNCHANGED <<oldNodes, newNodes, exceptDiff>>

\* DiffContentWithContext, lines 99-152, on the result of line 97.
DiffContentWithContext ==
    /\ dpc = "diffed"
    /\ diffResult' = WithContextOf(diffResult)
    /\ dpc' = "done"
    /\ UNCHANGED <<oldNodes, newNodes, exceptDiff>>

\* ---------------------------------------------- TranslateBatchParallel
ParIdle == par = [pc |-> "off"]

\* The nodes a caller may pass: two of them share a text (and so a fingerprint) and
\* differ in their context.
ParNodePool ==
    { [Text |-> <<"H", "i">>, Hash |-> HashText(<<"H", "i">>), Context |-> "p"],
      [Text |-> <<"H", "i">>, Hash |-> HashText(<<"H", "i">>), Context |-> "h1"],
      [Text |-> <<"Y", "o">>, Hash |-> HashText(<<"Y", "o">>), Context |-> "p"] }

ParNodes == SeqsUpTo(ParNodePool, MaxParNodes)

\* NewParallelTranslator with its options and WithParallelThreshold.
ParallelTranslators ==
    { [sourceLang |-> en, targetLang |-> es_ES, provider |-> TRUE,
       cache |-> "memory", ttl |-> 0, excludedTerms |-> <<>>, context |-> "",
       glossary |-> <<>>, style |-> "neutral", parallelThreshold |-> 2],
      [sourceLang |-> en, targetLang |-> es_ES, provider |-> TRUE,
       cache |-> "memory", ttl |-> 0, excludedTerms |-> <<"API">>, context |-> "docs",
       glossary |-> <<"hello", "hola">>, style |-> "formal", parallelThreshold |-> 0],
      [sourceLang |-> en, targetLang |-> es_ES, provider |-> FALSE,
       cache |-> "memory", ttl |-> 0, excludedTerms |-> <<>>, context |-> "",
       glossary |-> <<>>, style |-> "neutral", parallelThreshold |-> 2],
      [sourceLang |-> en, targetLang |-> es_ES, provider |-> TRUE,
       cache |-> "none", ttl |-> 0, excludedTerms |-> <<>>, context |-> "",
       glossary |-> <<>>, style |-> "neutral", parallelThreshold |-> 2] }

\* The caches the call may find: any of the pool's fingerprints translated already.
ParCaches(t) ==
    IF t.cache = "none" THEN {EmptyMap}
    ELSE LET hs == {n.Hash : n \in ParNodePool}
         IN  { [k \in {CacheKey(h, t.targetLang) : h \in sub} |->
                   [value |-> <<"c">> \o k, timestamp |-> 0]] : sub \in SUBSET hs }

\* translateBatch, lines 196-212: the sequential lookup loop over ns in cache c:
\* [translations, cacheMisses, seenHashes, cachedCount].
SequentialLookup(t, c, ns) ==
    LET F[k \in 0..Len(ns)] ==
            IF k = 0
            THEN [translations |-> EmptyMap, cacheMisses |-> <<>>, seenHashes |-> {},
                  cachedCount |-> 0]
            ELSE LET p == F[k - 1]
                     node == ns[k]
                     r == CacheGet(t, c, CacheKey(node.Hash, t.targetLang), 0, FALSE)
                 IN  IF t.cache # "none" /\ r.found
                     THEN [p EXCEPT !.translations = MapPut(@, node.Hash, r.value),
                                    !.cachedCount = @ + 1]
                     ELSE [p EXCEPT !.cacheMisses = AppendMiss(@, p.seenHashes, node),
                                    !.seenHashes = @ \cup {node.Hash}]
    IN  F[Len(ns)]

\* ParallelCacheLookup, lines 22-27: the hashes of uniqueNodes.
UniqueHashes(ns) == {ns[i].Hash : i \in 1..Len(ns)}

\* A channel with room for one result less.
ChannelCapacityShort(ns) == Cardinality(UniqueHashes(ns)) - 1

\* ParallelCacheLookup, line 30: the buffer of the results channel.
ChannelCapacity(ns) == Cardinality(UniqueHashes(ns))

\* A miss list that repeats a fingerprint as often as the input does.
BuildMissesAll(ns, missedHashes) ==
    LET F[k \in 0..Len(ns)] ==
            IF k = 0 THEN <<>>
            ELSE IF ns[k].Hash \in missedHashes THEN Append(F[k - 1], ns[k]) ELSE F[k - 1]
    IN  F[Len(ns)]

\* ParallelCacheLookup, lines 66-73: the missed nodes in input order, each hash once.
BuildMisses(ns, missedHashes) ==
    LET F[k \in 0..Len(ns)] ==
            IF k = 0 THEN [cacheMisses |-> <<>>, seenMisses |-> {}]
            ELSE LET p == F[k - 1]
                 IN  IF ns[k].Hash \in missedHashes /\ ns[k].Hash \notin p.seenMisses
                     THEN [cacheMisses |-> Append(p.cacheMisses, ns[k]),
                           seenMisses |-> p.seenMisses \cup {ns[k].Hash}]
                     ELSE p
    IN  F[Len(ns)].cacheMisses

\* TranslateBatchParallel, lines 113-127: the request built from cacheMisses.  The
\* literal sets neither Glossary nor Style, which are then the zero values.
ParallelRequest(t, misses) ==
    [Texts |-> [i \in 1..Len(misses) |-> misses[i].Text],
     TextContexts |-> [i \in 1..Len(misses) |-> misses[i].Context],
     TargetLang |-> t.targetLang, SourceLang |-> t.sourceLang,
     ExcludedTerms |-> t.excludedTerms, Context |-> t.context,
     Glossary |-> <<>>, Style |-> ""]

\* translateBatch, lines 234-249, and TranslateBatchParallel, lines 128-143: what
\* the call returns and leaves in the cache c once the backend has answered request
\* req for the misses with an error or with results:
\* [translations, cachedCount, translatedCount, err, request, cache].
AfterBackend(t, c, hits, hitCount, misses, req, fails, res) ==
    IF fails
    THEN [translations |-> EmptyMap, cachedCount |-> 0, translatedCount |-> 0,
          err |-> "ProviderError", request |-> req, cache |-> c]
    ELSE LET F[k \in 0..Len(misses)] ==
                 IF k = 0 THEN [translations |-> hits, cache |-> c]
                 ELSE LET p == F[k - 1]
                          key == CacheKey(misses[k].Hash, t.targetLang)
                      IN  [translations |-> MapPut(p.translations, misses[k].Hash, res[k]),
                           cache |-> IF t.cache # "none"
                                     THEN CacheSet(t, p.cache, key, res[k], 0, FALSE)
                                     ELSE p.cache]
         IN  [translations |-> F[Len(misses)].translations, cachedCount |-> hitCount,
              translatedCount |-> Len(misses), err |-> "", request |-> req,
              cache |-> F[Len(misses)].cache]

\* translateBatch, line 216, and TranslateBatchParallel, line 112: no backend call.
WithoutBackend(c, hits, hitCount) ==
    [translations |-> hits, cachedCount |-> hitCount, translatedCount |-> 0,
     err |-> "", request |-> NoRequest, cache |-> c]

NoOutcome == WithoutBackend(EmptyMap, EmptyMap, 0)

\* A caller holds a ParallelTranslator, its cache and a batch of nodes.
ParInit ==
    \E t \in ParallelTranslators, ns \in ParNodes : \E c \in ParCaches(t) :
        par = [pc |-> "start", t |-> t, nodes |-> ns, cache |-> c, cache0 |-> c,
               path |-> "", pending |-> {}, sending |-> EmptyMap, wg |-> 0,
               capacity |-> 0, results |-> <<>>, closed |-> FALSE,
               sends |-> <<>>, received |-> <<>>,
               translations |-> EmptyMap, missedHashes |-> {}, cacheMisses |-> <<>>,
               cachedCount |-> 0, request |-> NoRequest, fails |-> FALSE, v |-> 0,
               out |-> NoOutcome]

\* TranslateBatchParallel, lines 100-107, and ParallelCacheLookup, lines 10-45: the
\* sequential fallback runs the lookup loop of translateBatch; the parallel path
\* returns at once for an empty batch, and otherwise launches one goroutine for each
\* distinct hash.
ParStart ==
    /\ par.pc = "start"
    /\ IF par.t.cache = "none" \/ Len(par.nodes) < par.t.parallelThreshold
       THEN LET lk == SequentialLookup(par.t, par.cache, par.nodes)
            IN  par' = [par EXCEPT !.path = "sequential", !.pc = "dispatch",
                                   !.translations = lk.translations,
                                   !.cacheMisses = lk.cacheMisses,
                                   !.cachedCount = lk.cachedCount]
       ELSE IF Len(par.nodes) = 0
       THEN par' = [par EXCEPT !.path = "parallel", !.pc = "dispatch",
                               !.cacheMisses = par.nodes, !.closed = TRUE]
       ELSE par' = [par EXCEPT !.path = "parallel", !.pc = "lookup",
                               !.pending = UniqueHashes(par.nodes),
                               !.wg = Cardinality(UniqueHashes(par.nodes)),
                               !.capacity = ChannelCapacity(par.nodes)]
    /\ UNCHANGED exceptPar

\* ParallelCacheLookup, lines 36-39: the goroutine of hash h looks it up.
ParGoroutine(h) ==
    /\ par.pc = "lookup"
    /\ h \in par.pending
    /\ LET r == CacheGet(par.t, par.cache, CacheKey(h, par.t.targetLang), 0, FALSE)
       IN  par' = [par EXCEPT !.pending = @ \ {h},
                              !.cache = r.cache,
                              !.sending = MapPut(@, h, [hash |-> h, value |-> r.value,
                                                        found |-> r.found])]
    /\ UNCHANGED exceptPar

\* ParallelCacheLookup, lines 37 and 40-42: the goroutine of hash h sends its result
\* and, returning, calls wg.Done.  The send waits for room in the buffer; on a closed
\* channel it panics.
ParSend(h) ==
    /\ par.pc = "lookup"
    /\ h \in DOMAIN par.sending
    /\ IF par.closed
       THEN par' = [par EXCEPT !.pc = "panic"]
       ELSE /\ Len(par.results) < par.capacity
            /\ par' = [par EXCEPT !.sending = MapDel(@, h),
                                  !.results = Append(@, par.sending[h]),
                                  !.sends = Append(@, h),
                                  !.wg = @ - 1]
    /\ UNCHANGED exceptPar

\* ParallelCacheLookup, lines 48-51: wg.Wait returns and the channel is closed.
ParClose ==
    /\ par.pc = "lookup"
    /\ par.wg = 0
    /\ ~par.closed
    /\ par' = [par EXCEPT !.closed = TRUE]
    /\ UNCHANGED exceptPar

\* ParallelCacheLookup, lines 57-63: the collecting loop receives one result.
ParReceive ==
    /\ par.pc = "lookup"
    /\ par.results # <<>>
    /\ LET result == Head(par.results)
       IN  par' = [par EXCEPT !.results = Tail(@),
                              !.received = Append(@, result.hash),
                              !.translations = IF result.found
                                               THEN MapPut(@, result.hash, result.value)
                                               ELSE @,
                              !.missedHashes = IF result.found THEN @
                                               ELSE @ \cup {result.hash}]
    /\ UNCHANGED exceptPar

\* ParallelCacheLookup, lines 57 and 65-75, and TranslateBatchParallel, line 108: the
\* range over the channel ends, the channel being closed and drained; the miss list
\* is built and cachedCount is the size of the hit map.
ParReturn ==
    /\ par.pc = "lookup"
    /\ par.closed
    /\ par.results = <<>>
    /\ par' = [par EXCEPT !.pc = "dispatch",
                          !.cacheMisses = BuildMisses(par.nodes, par.missedHashes),
                          !.cachedCount = Cardinality(DOMAIN par.translations)]
    /\ UNCHANGED exceptPar

\* translateBatch, lines 216-233, and TranslateBatchParallel, lines 112-127: the
\* backend is called with the request of the path taken, or not at all.
ParDispatch ==
    /\ par.pc = "dispatch"
    /\ IF Len(par.cacheMisses) > 0 /\ par.t.provider
       THEN par' = [par EXCEPT !.pc = "backend",
                               !.request = IF par.path = "sequential"
                                           THEN TranslateRequest(par.t, par.cacheMisses)
                                           ELSE ParallelRequest(par.t, par.cacheMisses)]
       ELSE par' = [par EXCEPT !.pc = "done",
                               !.out = WithoutBackend(par.cache, par.translations,
                                                      par.cachedCount)]
    /\ UNCHANGED exceptPar

\* The backend returns an error, or one result for each text; the results are stored
\* and cached and the call returns.
ParBackendReturn(fails, v) ==
    /\ par.pc = "backend"
    /\ LET o == AfterBackend(par.t, par.cache, par.translations, par.cachedCount,
                             par.cacheMisses, par.request, fails,
                             BackendResults(par.request.Texts, v, 0))
       IN  par' = [par EXCEPT !.pc = "done", !.fails = fails, !.v = v, !.out = o,
                              !.cache = o.cache]
    /\ UNCHANGED exceptPar

\* ------------------------------------------------- Exporter and Importer
XferIdle == xfer = [pc |-> "off"]

ProcsIdle == procs = [pc |-> "off"]

\* ------------------------------------------------------- InMemoryCache
Goroutines == {"g1", "g2"}

Keys == {"k1", "k2"}

Values == {"v1", "v2"}

\* NewInMemoryCache(ttlSeconds): a ttl of zero or less is no expiry.
NewInMemoryCache(ttlSeconds) ==
    [cache |-> EmptyMap, ttl |-> IF ttlSeconds <= 0 THEN 0 ELSE ttlSeconds]

\* An entry that counts as expired as soon as its age reaches the ttl.
ExpiredAtTTL(ttl, entry, t) == ttl > 0 /\ t - entry.timestamp >= ttl

\* Get, line 46: c.ttl > 0 && time.Since(entry.timestamp) > c.ttl.
Expired(ttl, entry, t) == ttl > 0 /\ t - entry.timestamp > ttl

\* Get's two results: ("", false) and (v, true).
Miss == [value |-> "", ok |-> FALSE]

Hit(v) == [value |-> v, ok |-> TRUE]

NoEntry == [value |-> "", timestamp |-> 0]

NeverSet == [set |-> FALSE, value |-> "", t |-> 0]

\* A goroutine's call: its arguments (key, value), its local entry, its result and
\* the time the result was decided; snap and clean record what the caller knew when
\* a Get began: the last Set of its key that had returned, and whether no Set of the
\* key and no Clear has been in progress since.
IdleCall ==
    [op |-> "", pc |-> "idle", key |-> "", value |-> "", entry |-> NoEntry,
     ret |-> Miss, at |-> 0, snap |-> NeverSet, clean |-> FALSE, n |-> 0]

CacheIdle ==
    /\ imc = NewInMemoryCache(0)
    /\ gcall = [g \in Goroutines |-> [IdleCall EXCEPT !.pc = "off"]]
    /\ lastSet = [k \in Keys |-> NeverSet]

CacheInit ==
    /\ \E ttlSeconds \in {-1, 0, 1} : imc = NewInMemoryCache(ttlSeconds)
    /\ gcall = [g \in Goroutines |-> IdleCall]
    /\ lastSet = [k \in Keys |-> NeverSet]

CacheOpsStarted == gcall["g1"].n + gcall["g2"].n

\* A goroutine may begin a call.
CanCall(g) ==
    /\ gcall[g].pc \in {"idle", "done"}
    /\ CacheOpsStarted < MaxCacheOps

\* The Gets in progress that a beginning Set of key k (or a Clear, for every key)
\* overlaps are no longer undisturbed.
Disturb(g, ks, call) ==
    [h \in Goroutines |->
        IF h = g THEN call
        ELSE IF gcall[h].op = "Get" /\ gcall[h].pc # "done" /\ gcall[h].key \in ks
        THEN [gcall[h] EXCEPT !.clean = FALSE]
        ELSE gcall[h]]

\* Set(key, value) is called.
CallSet(g, k, v) ==
    /\ CanCall(g)
    /\ gcall' = Disturb(g, {k}, [IdleCall EXCEPT !.op = "Set", !.pc = "set", !.key = k,
                                                 !.value = v, !.n = gcall[g].n + 1])
    /\ UNCHANGED <<now, imc, lastSet, exceptCache>>

\* Set, lines 59-66: under the write lock the entry is stored with time.Now(); Set
\* returns nil.
SetWrite(g) ==
    /\ gcall[g].pc = "set"
    /\ imc' = [imc EXCEPT !.cache = MapPut(@, gcall[g].key,
                                           [value |-> gcall[g].value, timestamp |-> now])]
    /\ lastSet' = [lastSet EXCEPT ![gcall[g].key] =
                      [set |-> TRUE, value |-> gcall[g].value, t |-> now]]
    /\ gcall' = [gcall EXCEPT ![g].pc = "done", ![g].at = now]
    /\ UNCHANGED <<now, exceptCache>>

\* Clear() is called.
CallClear(g) ==
    /\ CanCall(g)
    /\ gcall' = Disturb(g, Keys, [IdleCall EXCEPT !.op = "Clear", !.pc = "clear",
                                                  !.n = gcall[g].n + 1])
    /\ UNCHANGED <<now, imc, lastSet, exceptCache>>

\* Clear, lines 78-80: under the write lock the map is replaced by an empty one.
ClearMap(g) ==
    /\ gcall[g].pc = "clear"
    /\ imc' = [imc EXCEPT !.cache = EmptyMap]
    /\ lastSet' = [k \in Keys |-> NeverSet]
    /\ gcall' = [gcall EXCEPT ![g].pc = "done", ![g].at = now]
    /\ UNCHANGED <<now, exceptCache>>

\* Get(key) is called.
CallGet(g, k) ==
    /\ CanCall(g)
    /\ gcall' = [gcall EXCEPT ![g] =
                    [IdleCall EXCEPT !.op = "Get", !.pc = "read", !.key = k,
                                     !.snap = lastSet[k],
                                     !.clean = /\ lastSet[k].set
                                               /\ \A h \in Goroutines \ {g} :
                                                     ~ \/ gcall[h].pc = "clear"
                                                       \/ gcall[h].pc = "set" /\ gcall[h].key = k,
                                     !.n = gcall[g].n + 1]]
    /\ UNCHANGED <<now, imc, lastSet, exceptCache>>

\* Get, lines 37-43: the entry is read under the read lock; an absent key is a miss.
GetRead(g) ==
    /\ gcall[g].pc = "read"
    /\ IF gcall[g].key \in DOMAIN imc.cache
       THEN gcall' = [gcall EXCEPT ![g].entry = imc.cache[gcall[g].key], ![g].pc = "check"]
       ELSE gcall' = [gcall EXCEPT ![g].ret = Miss, ![g].at = now, ![g].pc = "done"]
    /\ UNCHANGED <<now, imc, lastSet, exceptCache>>

\* Get, lines 46 and 54: the age of the entry read is compared with the ttl, outside
\* any lock; a live entry is returned.
GetCheck(g) ==
    /\ gcall[g].pc = "check"
    /\ IF Expired(imc.ttl, gcall[g].entry, now)
       THEN gcall' = [gcall EXCEPT ![g].at = now, ![g].pc = "evict"]
       ELSE gcall' = [gcall EXCEPT ![g].ret = Hit(gcall[g].entry.value), ![g].at = now,
                                   ![g].pc = "done"]
    /\ UNCHANGED <<now, imc, lastSet, exceptCache>>

\* Get, lines 48-51: under the write lock the key is deleted, whatever entry it holds
\* by now; Get returns a miss.
GetEvict(g) ==
    /\ gcall[g].pc = "evict"
    /\ imc' = [imc EXCEPT !.cache = MapDel(@, gcall[g].key)]
    /\ gcall' = [gcall EXCEPT ![g].ret = Miss, ![g].pc = "done"]
    /\ UNCHANGED <<now, lastSet, exceptCache>>

\* Time passing for the cache.
CacheTick ==
    /\ Tick
    /\ UNCHANGED <<cacheVars, exceptCache>>

\* ------------------------------------------------------ specifications
Init ==
    /\ now = 0
    /\ TrInit
    /\ RetryIdle
    /\ LimIdle
    /\ CacheIdle
    /\ DiffIdle
    /\ ParIdle
    /\ XferIdle
    /\ ProcsIdle

Next ==
    \/ \E c \in Documents, ct \in ContentTypes, extractFails \in BOOLEAN :
          ProcessStart(c, ct, extractFails)
    \/ \E fails \in CacheFaults(tr, obs.faults) : LookupStep(fails)
    \/ Dispatch
    \/ \E o \in BackendOutcomes : BackendReturn(o[1], o[2], o[3])
    \/ \E fails \in CacheFaults(tr, obs.faults) : WriteBackStep(fails)
    \/ \E fails \in BOOLEAN : ApplyStep(fails)
    \/ TrTick

vars == <<now, trVars, retryVars, limVars, cacheVars, diffVars, parVars, xferVars,
          procVars>>

Spec == Init /\ [][Next]_vars

TrIdle ==
    /\ tr = [sourceLang |-> en, targetLang |-> en, provider |-> FALSE,
             cache |-> "none", ttl |-> 0, processors |-> {}]
    /\ cache = EmptyMap
    /\ pc = "off"
    /\ content = NoContent
    /\ contentType = ""
    /\ nodes = <<>>
    /\ idx = 0
    /\ translations = EmptyMap
    /\ cacheMisses = <<>>
    /\ seenHashes = {}
    /\ cachedCount = 0
    /\ translatedCount = 0
    /\ results = <<>>
    /\ out = Failed("none")
    /\ obs = NoObs
    /\ prev = NoPrev

InitRetry ==
    /\ now = 0
    /\ TrIdle
    /\ RetryInit
    /\ LimIdle
    /\ CacheIdle
    /\ DiffIdle
    /\ ParIdle
    /\ XferIdle
    /\ ProcsIdle

NextRetry ==
    \/ RetryLoop
    \/ \E o \in FnOutcomes(Len(fnLog) + 1) : RetryFnReturns(o)
    \/ RetryWakeCancelled
    \/ RetryWakeTimer
    \/ TimerFires
    \/ \E c \in {"Canceled", "DeadlineExceeded"} : CtxDone(c)

SpecRetry == InitRetry /\ [][NextRetry]_vars

InitLimiter ==
    /\ now = 0
    /\ TrIdle
    /\ RetryIdle
    /\ LimInit
    /\ CacheIdle
    /\ DiffIdle
    /\ ParIdle
    /\ XferIdle
    /\ ProcsIdle

NextLimiter ==
    \/ \E c \in Callers, op \in {"TryAcquire", "Wait", "Translate"} : Call(c, op)
    \/ \E c \in Callers : Lock(c)
    \/ \E c \in Callers : Refill(c)
    \/ \E c \in Callers : Test(c)
    \/ \E c \in Callers : Take(c)
    \/ \E c \in Callers : Unlock(c)
    \/ \E c \in Callers : ReadWaitTime(c)
    \/ \E c \in Callers : WaitCancelled(c)
    \/ \E c \in Callers : WaitTimer(c)
    \/ \E c \in Callers, err \in {Nil, <<"ProviderError+">>} : Forward(c, err)
    \/ \E c \in Callers : Cancel(c)
    \/ LimTick

SpecLimiter == InitLimiter /\ [][NextLimiter]_vars

\* Wait, line 45, entered by c1 with a context that is cancelled already.
InitLimiterCancelled ==
    /\ now = 0
    /\ TrIdle
    /\ RetryIdle
    /\ \E config \in RateLimitConfigs : lim = NewRateLimiter(config, 0)
    /\ mu = NoCaller
    /\ callers = [c \in Callers |->
                     IF c = "c1"
                     THEN [IdleCaller EXCEPT !.op = "Wait", !.pc = "lock", !.n = 1,
                                             !.ctx = "Canceled"]
                     ELSE IdleCaller]
    /\ tryLog = <<>>
    /\ CacheIdle
    /\ DiffIdle
    /\ ParIdle
    /\ XferIdle
    /\ ProcsIdle

SpecLimiterCancelled == InitLimiterCancelled /\ [][NextLimiter]_vars

\* Wait, line 45, entered by c1 with a context that is never cancelled; c2 stands
\* for the other callers of the limiter, which may already have emptied the bucket.
InitLimiterFair ==
    /\ now = 1
    /\ TrIdle
    /\ RetryIdle
    /\ \E config \in {cf \in RateLimitConfigs : cf.BurstSize > 0}, drained \in BOOLEAN :
           lim = IF drained THEN [NewRateLimiter(config, now) EXCEPT !.tokens = 0]
                 ELSE NewRateLimiter(config, now)
    /\ mu = NoCaller
    /\ callers = [c \in Callers |->
                     IF c = "c1" THEN [IdleCaller EXCEPT !.op = "Wait", !.pc = "lock"]
                     ELSE IdleCaller]
    /\ tryLog = <<>>
    /\ CacheIdle
    /\ DiffIdle
    /\ ParIdle
    /\ XferIdle
    /\ ProcsIdle

\* The steps of caller c inside TryAcquire and Wait that need no mutex.
FairSteps(c) ==
    \/ Refill(c)
    \/ FairTest(c)
    \/ Take(c)
    \/ Unlock(c)
    \/ WaitCancelled(c)
    \/ WaitTimer(c)

NextLimiterFair ==
    \/ \E op \in {"TryAcquire", "Wait"} : FairCall("c2", op)
    \/ \E c \in Callers : Lock(c)
    \/ \E c \in Callers : ReadWaitTime(c)
    \/ \E c \in Callers : FairSteps(c)
    \/ Cancel("c2")
    \/ FairTick

\* Every goroutine inside a call keeps running, the mutex is handed to every
\* goroutine that keeps asking for it, and time advances.  Whether and when the other
\* callers call is up to them.
SpecLimiterFair ==
    /\ InitLimiterFair
    /\ [][NextLimiterFair]_vars
    /\ WF_vars(FairTick)
    /\ \A c \in Callers :
           /\ WF_vars(FairSteps(c))
           /\ SF_vars(Lock(c))
           /\ SF_vars(ReadWaitTime(c))

InitCache ==
    /\ now = 0
    /\ TrIdle
    /\ RetryIdle
    /\ LimIdle
    /\ CacheInit
    /\ DiffIdle
    /\ ParIdle
    /\ XferIdle
    /\ ProcsIdle

\* One caller of the cache.
NextCacheSeq ==
    \/ \E k \in Keys, v \in Values : CallSet("g1", k, v)
    \/ SetWrite("g1")
    \/ CallClear("g1")
    \/ ClearMap("g1")
    \/ \E k \in Keys : CallGet("g1", k)
    \/ GetRead("g1")
    \/ GetCheck("g1")
    \/ GetEvict("g1")
    \/ CacheTick

SpecCacheSeq == InitCache /\ [][NextCacheSeq]_vars

\* Concurrent callers of the cache.
NextCache ==
    \/ \E g \in Goroutines, k \in Keys, v \in Values : CallSet(g, k, v)
    \/ \E g \in Goroutines : SetWrite(g)
    \/ \E g \in Goroutines : CallClear(g)
    \/ \E g \in Goroutines : ClearMap(g)
    \/ \E g \in Goroutines, k \in Keys : CallGet(g, k)
    \/ \E g \in Goroutines : GetRead(g)
    \/ \E g \in Goroutines : GetCheck(g)
    \/ \E g \in Goroutines : GetEvict(g)
    \/ CacheTick

SpecCache == InitCache /\ [][NextCache]_vars

InitDiff ==
    /\ now = 0
    /\ TrIdle
    /\ RetryIdle
    /\ LimIdle
    /\ CacheIdle
    /\ DiffInit
    /\ ParIdle
    /\ XferIdle
    /\ ProcsIdle

NextDiff ==
    \/ \E po \in IterationOrders(ByHash(oldNodes)), pn \in IterationOrders(ByHash(newNodes)) :
          DiffContent(po, pn)
    \/ DiffContentWithContext

SpecDiff == InitDiff /\ [][NextDiff]_vars

\* DiffContentWithContext called with nodes some of which have no ID.
InitDiffAnyID ==
    /\ now = 0
    /\ TrIdle
    /\ RetryIdle
    /\ LimIdle
    /\ CacheIdle
    /\ oldNodes \in CollectionsAnyID
    /\ newNodes \in CollectionsAnyID
    /\ diffResult = NoDiff
    /\ dpc = "start"
    /\ ParIdle
    /\ XferIdle
    /\ ProcsIdle

SpecDiffAnyID == InitDiffAnyID /\ [][NextDiff]_vars

\* --------------------------------------- Exporter.Export, Importer.Import
\* Strings are sequences of characters; "xFF" is a byte that is not valid UTF-8 and
\* "U+FFFD" the replacement character.
XferKeys == {<<"a">>, <<"b">>, <<"xFF">>}

XferValues == {<<"x">>, <<"<">>, <<"xFF">>}

\* The caches an Importer may write to: NewInMemoryCache(0), NewInMemoryCache(1) and
\* a remote store whose commands can fail.
XferTargets ==
    { [cache |-> "memory", ttl |-> 0], [cache |-> "memory", ttl |-> 1],
      [cache |-> "redis", ttl |-> 0] }

\* encoding/json, string encoding with HTML escaping: invalid UTF-8 is written as
\* the escape of U+FFFD and "<" as its escape.
JSONEncode(str) ==
    [i \in 1..Len(str) |->
        IF str[i] = "xFF" THEN "\\ufffd"
        ELSE IF str[i] = "<" THEN "\\u003c"
        ELSE str[i]]

\* encoding/json, string decoding: escapes become the characters they name.
JSONDecode(str) ==
    [i \in 1..Len(str) |->
        IF str[i] = "\\ufffd" THEN "U+FFFD"
        ELSE IF str[i] = "\\u003c" THEN "<"
        ELSE str[i]]

ValidUTF8(str) == \A i \in 1..Len(str) : str[i] # "xFF"

\* InMemoryCache.Entries at time t: the entries that have not expired.
Entries(c, ttl, t) ==
    LET live == {k \in DOMAIN c : ~Expired(ttl, c[k], t)}
    IN  [k \in live |-> c[k].value]

\* exportInMemoryCache and Export: the entries of data in the order o of the range
\* over the map, as the encoder writes them.
ExportDocument(data, o) ==
    [i \in 1..Len(o) |-> [Key |-> JSONEncode(o[i]), Value |-> JSONEncode(data[o[i]])]]

\* Import, line 249: the entries decoded from the document.
DecodeDocument(doc) ==
    [i \in 1..Len(doc) |-> [Key |-> JSONDecode(doc[i].Key), Value |-> JSONDecode(doc[i].Value)]]

\* An import that stops at the first entry that fails.
NextEntryAbort(i, n, failed) == IF failed THEN n + 1 ELSE i + 1

\* Import, lines 259-265: the loop goes on to the next entry, failed or not.
NextEntry(i, n, failed) == i + 1

\* Documents written by hand: keys may repeat.
HandWritten ==
    SeqsUpTo({ [Key |-> <<"a">>, Value |-> <<"x">>], [Key |-> <<"a">>, Value |-> <<"y">>],
               [Key |-> <<"b">>, Value |-> <<"\\u003c">>] }, MaxEntries)

NoXfer ==
    [pc |-> "fill", source |-> EmptyMap, sourceTTL |-> 0, target |-> [cache |-> "memory", ttl |-> 0],
     exported |-> FALSE, exportedAt |-> 0, live |-> EmptyMap, decodable |-> TRUE,
     document |-> <<>>, entries |-> <<>>, i |-> 1, cache |-> EmptyMap,
     Imported |-> 0, Failed |-> 0, sets |-> <<>>, err |-> ""]

\* Either an empty InMemoryCache about to be filled and exported, or a document from
\* elsewhere, which may not be JSON at all; and an empty cache to import into.
XferInit ==
    \E tg \in XferTargets :
        \/ \E ttl \in {0, 1} :
               xfer = [NoXfer EXCEPT !.sourceTTL = ttl, !.target = tg]
        \/ \E doc \in HandWritten, ok \in BOOLEAN :
               xfer = [NoXfer EXCEPT !.pc = "exported", !.target = tg,
                                     !.document = doc, !.decodable = ok]

\* Time passes.
XferTick ==
    /\ xfer.pc \in {"fill", "exported", "import"}
    /\ now < MaxTime
    /\ now' = now + 1
    /\ UNCHANGED <<xfer, exceptXfer>>

\* InMemoryCache.Set on the source cache.
XferSet(key, value) ==
    /\ xfer.pc = "fill"
    /\ key \notin DOMAIN xfer.source
    /\ Cardinality(DOMAIN xfer.source) < MaxEntries
    /\ xfer' = [xfer EXCEPT !.source = MemorySet(@, key, value, now)]
    /\ UNCHANGED <<now, exceptXfer>>

\* Exporter.Export on the source cache: Entries, the range over the map in order o,
\* and the encoder.
Export(o) ==
    /\ xfer.pc = "fill"
    /\ LET data == Entries(xfer.source, xfer.sourceTTL, now)
       IN  /\ o \in IterationOrders(data)
           /\ xfer' = [xfer EXCEPT !.pc = "exported", !.exported = TRUE,
                                    !.exportedAt = now, !.live = data,
                                    !.document = ExportDocument(data, o)]
    /\ UNCHANGED <<now, exceptXfer>>

\* Importer.Import, lines 247-257: a document that does not decode is an error;
\* otherwise the loop over the entries starts.
ImportDecode ==
    /\ xfer.pc = "exported"
    /\ IF ~xfer.decodable
       THEN xfer' = [xfer EXCEPT !.pc = "done", !.err = "decoding JSON"]
       ELSE LET es == DecodeDocument(xfer.document)
            IN  xfer' = [xfer EXCEPT !.entries = es,
                                     !.pc = IF Len(es) = 0 THEN "done" ELSE "import"]
    /\ UNCHANGED <<now, exceptXfer>>

\* Importer.Import, lines 259-267: one turn of the loop, Set and the count; after
\* the last entry the result is returned.
ImportEntry(fails) ==
    /\ xfer.pc = "import"
    /\ xfer.i <= Len(xfer.entries)
    /\ fails \in (IF xfer.target.cache = "redis" THEN BOOLEAN ELSE {FALSE})
    /\ LET entry == xfer.entries[xfer.i]
           next == NextEntry(xfer.i, Len(xfer.entries), fails)
       IN  xfer' = [xfer EXCEPT
                       !.cache = CacheSet(xfer.target, @, entry.Key, entry.Value, now, fails),
                       !.sets = Append(@, [Key |-> entry.Key, Value |-> entry.Value,
                                           failed |-> fails]),
                       !.Failed = IF fails THEN @ + 1 ELSE @,
                       !.Imported = IF fails THEN @ ELSE @ + 1,
                       !.i = next,
                       !.pc = IF next > Len(xfer.entries) THEN "done" ELSE "import"]
    /\ UNCHANGED <<now, exceptXfer>>

InitParallel ==
    /\ now = 0
    /\ TrIdle
    /\ RetryIdle
    /\ LimIdle
    /\ CacheIdle
    /\ DiffIdle
    /\ ParInit
    /\ XferIdle
    /\ ProcsIdle

NextParallel ==
    \/ ParStart
    \/ \E h \in UniqueHashes(par.nodes) : ParGoroutine(h)
    \/ \E h \in UniqueHashes(par.nodes) : ParSend(h)
    \/ ParClose
    \/ ParReceive
    \/ ParReturn
    \/ ParDispatch
    \/ \E fails \in BOOLEAN, v \in {1, 2} : ParBackendReturn(fails, v)

SpecParallel == InitParallel /\ [][NextParallel]_vars

\* The goroutines of the call are scheduled for as long as they can run.
SpecParallelFair == InitParallel /\ [][NextParallel]_vars /\ WF_vars(NextParallel)

InitXfer ==
    /\ now = 0
    /\ TrIdle
    /\ RetryIdle
    /\ LimIdle
    /\ CacheIdle
    /\ DiffIdle
    /\ ParIdle
    /\ XferInit
    /\ ProcsIdle

NextXfer ==
    \/ XferTick
    \/ \E key \in XferKeys, value \in XferValues : XferSet(key, value)
    \/ \E o \in SeqsUpTo(XferKeys, MaxEntries) : Export(o)
    \/ ImportDecode
    \/ \E fails \in BOOLEAN : ImportEntry(fails)

SpecXfer == InitXfer /\ [][NextXfer]_vars

\* ------------------------------------------------------- claims C1-C3
\* The indices of ix (indices into ns, ascending) that are the first of their
\* fingerprint within ix.
FirstByHash(ns, ix) ==
    LET F[k \in 0..Len(ix)] ==
            IF k = 0 THEN <<>>
            ELSE IF \E j \in 1..(k - 1) : ns[ix[j]].Hash = ns[ix[k]].Hash
                 THEN F[k - 1]
                 ELSE Append(F[k - 1], ix[k])
    IN  F[Len(ix)]

\* The indices of ns, ascending, whose fingerprint has no entry in cache c.
AbsentIndices(ns, c, lang) ==
    LET F[k \in 0..Len(ns)] ==
            IF k = 0 THEN <<>>
            ELSE IF CacheKey(ns[k].Hash, lang) \in DOMAIN c
                 THEN F[k - 1]
                 ELSE Append(F[k - 1], k)
    IN  F[Len(ns)]

RequestSent == obs.backendCalls > 0

\* C1 (dedup).  Once a Process call has sent its request to the backend: (a) the
\* request holds, for each fingerprint some lookup of this call missed, exactly one
\* item, the text and context of the first unit of that fingerprint that missed, in
\* that order; (b) when the lookups saw one cache state (no entry expired and no
\* lookup failed during the call), these are the first occurrences, in document order,
\* of the fingerprints the cache did not hold; (c) units that all share one
\* fingerprint make a request of exactly 1 item; (d) the map passed to Apply has an
\* entry for every unit, the backend's result at the index of its fingerprint for a
\* fingerprint that was sent, so that units sharing a fingerprint get the same text.
C1_Dedup ==
    RequestSent =>
        LET sent == FirstByHash(nodes, obs.missed)
            req == obs.request
        IN  /\ req.Texts = [k \in 1..Len(sent) |-> nodes[sent[k]].Text]
            /\ req.TextContexts = [k \in 1..Len(sent) |-> nodes[sent[k]].Context]
            /\ \A k, l \in 1..Len(req.Texts) :
                  HashText(req.Texts[k]) = HashText(req.Texts[l]) => k = l
            /\ {HashText(req.Texts[k]) : k \in 1..Len(req.Texts)}
                  = {nodes[i].Hash : i \in Range(obs.missed)}
            /\ (~obs.expired /\ ~obs.getFailed) =>
                  sent = FirstByHash(nodes, AbsentIndices(nodes, obs.cache0, tr.targetLang))
            /\ (\A i, j \in 1..Len(nodes) : nodes[i].Hash = nodes[j].Hash) =>
                  Len(req.Texts) = 1
            /\ obs.applies > 0 =>
                  /\ \A i \in 1..Len(nodes) : nodes[i].Hash \in DOMAIN obs.applied
                  /\ \A k \in 1..Len(sent) : obs.applied[nodes[sent[k]].Hash] = results[k]
                  /\ out.err = "" =>
                        \A i, j \in 1..Len(nodes) :
                            nodes[i].Hash = nodes[j].Hash =>
                                out.Content.elems[i].text = out.Content.elems[j].text

\* C1's case: three units, the first and the third sharing a fingerprint under
\* different contexts, all missing a configured cache; two items were sent and the
\* call returned.
C1_Witness ==
    /\ pc = "done" /\ out.err = "" /\ RequestSent
    /\ tr.cache # "none"
    /\ Len(nodes) = 3
    /\ nodes[1].Hash = nodes[3].Hash /\ nodes[1].Context # nodes[3].Context
    /\ nodes[2].Hash # nodes[1].Hash
    /\ Len(obs.request.Texts) = 2

\* The second of two successive Process calls with the same content and content type.
SecondIdenticalCall == prev.valid /\ prev.same /\ prev.err = ""

\* C2 as stated (cache idempotence).  With a cache configured and no entry expiring,
\* the second of two identical successive calls (of a Translator that has a backend to
\* invoke) never invokes the backend and reports TranslatedCount = 0 and CachedCount =
\* the first call's TotalNodes.
C2_AsStated ==
    (SecondIdenticalCall /\ tr.cache # "none" /\ ~obs.expired /\ tr.provider) =>
        /\ obs.backendCalls = 0
        /\ (pc = "done" /\ out.err = "") =>
              /\ out.TranslatedCount = 0
              /\ out.CachedCount = prev.TotalNodes

\* C2, amended.  The same, for a Translator that has a backend, when no cache write of
\* the first call and no cache read of the second call failed.
C2_CacheIdempotence ==
    (/\ SecondIdenticalCall /\ tr.cache # "none" /\ ~obs.expired
     /\ tr.provider /\ ~prev.setFailed /\ ~obs.getFailed) =>
        /\ obs.backendCalls = 0
        /\ (pc = "done" /\ out.err = "") =>
              /\ out.TranslatedCount = 0
              /\ out.CachedCount = prev.TotalNodes

\* C2's case: the second identical call returned, all three units served by the cache.
C2_Witness ==
    /\ SecondIdenticalCall /\ tr.cache = "memory" /\ tr.ttl > 0 /\ tr.provider
    /\ ~obs.expired /\ ~prev.setFailed
    /\ pc = "done" /\ out.err = ""
    /\ prev.TotalNodes = 3 /\ out.CachedCount = 3 /\ obs.cacheGets = 3

\* C3 (language short-circuit).  When the base tags of source and target (the part
\* before "_", lowercased) agree, a Process call returns its content verbatim with
\* zero counts and has looked up no processor, called neither Extract nor Apply nor
\* the backend, and neither read nor written the cache.
C3_ShortCircuit ==
    (obs.calls > 0 /\ ToLower(SplitFirst(tr.sourceLang)) = ToLower(SplitFirst(tr.targetLang))) =>
        /\ pc = "done"
        /\ out = Returned("", content, 0, 0, 0)
        /\ obs.lookups = 0 /\ obs.extracts = 0 /\ obs.applies = 0
        /\ obs.backendCalls = 0
        /\ obs.cacheGets = 0 /\ obs.cacheSets = 0
        /\ cache = obs.cache0

\* C3's case: source en, target en_US, a document with text, a cache and the second call.
C3_Witness ==
    /\ pc = "done" /\ obs.calls = 2
    /\ tr.sourceLang = en /\ tr.targetLang = en_US /\ tr.cache # "none"
    /\ Len(content.elems) = 2 /\ contentType = "html"
    /\ out.Content = content

\* ------------------------------------------------------- claims C4-C6
\* An error marked retryable: the first *ProviderError of its chain has Retryable set.
MarkedRetryable(err) ==
    LET providerErrors == SelectSeq(err, IsProviderError)
    IN  Len(providerErrors) > 0 /\ providerErrors[1] = "ProviderError+"

AllRetryable == \A i \in 1..Len(fnLog) : MarkedRetryable(fnLog[i].err)

\* The outcome of the last invocation ended the loop: a success, or an error not
\* marked retryable.
LastOutcomeFinal ==
    /\ Len(fnLog) >= 1
    /\ ~MarkedRetryable(fnLog[Len(fnLog)].err)

\* WithRetry returned what the last invocation returned.
ReturnedLastOutcome ==
    LET last == fnLog[Len(fnLog)]
    IN  /\ ret.err = last.err
        /\ IF last.err = Nil THEN ret.value = last.value
           ELSE ret.value = 0 /\ ret.id = last.id

\* C4 (retry bound): for MaxRetries = N >= 0 the operation is never invoked more than
\* N+1 times, and when every invocation fails with a retryable error and the context
\* stays live, WithRetry returns after exactly N+1 invocations with the error of the
\* last one.
C4_RetryBound ==
    cfg.MaxRetries >= 0 =>
        /\ Len(fnLog) <= cfg.MaxRetries + 1
        /\ (rpc = "done" /\ ctx = "active" /\ AllRetryable) =>
              /\ Len(fnLog) = cfg.MaxRetries + 1
              /\ ret.err = fnLog[cfg.MaxRetries + 1].err
              /\ ret.id = cfg.MaxRetries + 1
              /\ ret.value = 0
              /\ Len(slept) = cfg.MaxRetries

C4_Witness ==
    /\ rpc = "done"
    /\ ctx = "active"
    /\ cfg.MaxRetries = 2
    /\ AllRetryable
    /\ Len(fnLog) = 3
    /\ ret.id = 3

\* C5 as stated (stop at the first final outcome): with a live context WithRetry
\* invokes the operation, every outcome before the last is a retryable error, and
\* when the last outcome is a success or an error not marked retryable WithRetry
\* returns exactly it, having slept only between invocations; so an operation that
\* returns a non-retryable error is invoked exactly once and no retry is consumed.
C5_AsStated ==
    (rpc = "done" /\ ctx = "active") =>
        /\ Len(fnLog) >= 1
        /\ \A i \in 1..(Len(fnLog) - 1) : MarkedRetryable(fnLog[i].err)
        /\ LastOutcomeFinal => (ReturnedLastOutcome /\ Len(slept) = Len(fnLog) - 1)

\* C5 where the operation was invoked at all: the statement above holds of every call
\* of WithRetry that reached an invocation, whatever the context did afterwards.
C5_StopsAtFinalOutcome ==
    Len(fnLog) >= 1 =>
        /\ \A i \in 1..(Len(fnLog) - 1) : MarkedRetryable(fnLog[i].err)
        /\ LastOutcomeFinal =>
              /\ rpc = "done"
              /\ ReturnedLastOutcome
              /\ Len(slept) = Len(fnLog) - 1
        /\ Len(fnLog) <= cfg.MaxRetries + 1

\* MaxRetries = -1, a live context: WithRetry has returned a nil error and the zero
\* value without one invocation.
C5_Witness ==
    /\ rpc = "done"
    /\ ctx = "active"
    /\ cfg.MaxRetries < 0
    /\ fnLog = <<>>
    /\ ret.err = Nil
    /\ ret.value = 0

\* The context is done before the first attempt, during a backoff sleep, or at the
\* top of the loop after one: every invocation so far was followed by a sleep.
CancelledInScope ==
    /\ ctx # "active"
    /\ rpc \in {"loop", "sleep"}
    /\ Len(slept) = Len(fnLog)

\* C6 as stated (retry cancellation): once the context is done before the first
\* attempt or during a backoff sleep, no step of WithRetry invokes the operation, and
\* when WithRetry returns it returns the context's error.
C6_AsStated ==
    [][CancelledInScope =>
          /\ fnLog' = fnLog
          /\ rpc' # "calling"
          /\ (rpc' = "done" => ret'.err = CtxErr(ctx))]_vars

\* C6 for MaxRetries >= 0: the statement above, and the return with the context's
\* error is possible at once, whatever remains of the delay.
C6_CancellationNonNegative ==
    /\ [][(cfg.MaxRetries >= 0 /\ CancelledInScope) =>
             /\ fnLog' = fnLog
             /\ rpc' # "calling"
             /\ (rpc' = "done" => ret'.err = CtxErr(ctx) /\ ret'.value = 0)]_vars
    /\ [](ctx # "active" /\ rpc = "sleep" => ENABLED RetryWakeCancelled)

\* MaxRetries = -1 and a context cancelled before the first attempt: WithRetry has
\* returned a nil error.
C6_Witness ==
    /\ rpc = "done"
    /\ ctx = "Canceled"
    /\ cfg.MaxRetries < 0
    /\ fnLog = <<>>
    /\ ret.err = Nil

\* ------------------------------------------------------ claims C7-C10
\* The burst size the limiter was created with, in whole tokens.
Burst == lim.maxTokens \div TokenUnit

\* The successful acquisitions, in order.
Admissions == SelectSeq(tryLog, LAMBDA e : e.ok)

\* C7 (burst): the first B TryAcquire calls on a fresh limiter of burst size B are
\* admitted; after B admissions at one instant, which drain the bucket, every call is
\* rejected until a whole token's refill time (TokenUnit / refillRate seconds) has
\* passed since that instant; and whenever the admissions came, the (B+1)-th is at
\* least that time after the first.
C7_Burst ==
    /\ \A i \in 1..Len(tryLog) : i <= Burst => tryLog[i].ok
    /\ \A i \in 1..Len(tryLog) :
          ( /\ i > Burst
            /\ \A j \in 1..Burst : tryLog[j].t = tryLog[1].t
            /\ (tryLog[i].t - tryLog[1].t) * lim.refillRate < TokenUnit )
          => ~tryLog[i].ok
    /\ Len(Admissions) > Burst =>
          (Admissions[Burst + 1].t - Admissions[1].t) * lim.refillRate >= TokenUnit

\* Burst 2: two immediate admissions, the third immediate call rejected, the fourth
\* call admitted after the refill time.
C7_Witness ==
    /\ Burst = 2
    /\ Len(tryLog) = 4
    /\ tryLog[2].ok /\ tryLog[2].t = tryLog[1].t
    /\ ~tryLog[3].ok /\ tryLog[3].t = tryLog[1].t
    /\ tryLog[4].ok /\ tryLog[4].t > tryLog[1].t

\* A caller is between Lock and Unlock of TryAcquire.
InTryAcquire(c) == callers[c].pc \in {"refill", "test", "take", "unlock"}

\* C8 (concurrency): at most one caller is inside the refill-and-decrement sequence,
\* and while no refill time has elapsed exactly min(n, B) of the n TryAcquire calls
\* made so far, in whatever interleaving, have succeeded, each one having removed one
\* whole token of its own from the bucket.
C8_Concurrent ==
    /\ Cardinality({c \in Callers : InTryAcquire(c)}) <= 1
    /\ lim.tokens >= 0
    /\ (mu = NoCaller /\ lim.lastRefill = 0) =>
          /\ Len(Admissions) = Min(Len(tryLog), Burst)
          /\ lim.tokens = (Burst - Len(Admissions)) * TokenUnit

\* Two concurrent TryAcquire calls on a bucket of one token: one has taken the token
\* and not yet released the mutex, the other is waiting for the mutex.
C8_Witness ==
    \E c, d \in Callers :
        /\ c # d
        /\ Burst = 1
        /\ now = 0
        /\ callers[c].op = "TryAcquire" /\ callers[c].pc = "unlock" /\ callers[c].ok
        /\ callers[d].op = "TryAcquire" /\ callers[d].pc = "lock"
        /\ mu = c
        /\ lim.tokens = 0

\* A Wait call sleeps in its select with its context done and the polling interval
\* not yet over.
CancelledWhileWaiting(c) ==
    /\ callers[c].op = "Wait"
    /\ callers[c].pc = "select"
    /\ callers[c].ctx # "active"
    /\ now < callers[c].wakeAt

\* C9 (Wait and cancellation): a Wait sleeping on a drained bucket whose context is
\* done before the polling interval is over can return at once, its only step is to
\* return the context's error, leaving the bucket as it is; and a Wait that has
\* returned an error has taken no token.
C9_WaitCancellation ==
    /\ [][\A c \in Callers :
             (CancelledWhileWaiting(c) /\ callers'[c] # callers[c]) =>
                 /\ callers'[c].pc = "done"
                 /\ callers'[c].err = CtxErr(callers[c].ctx)
                 /\ lim' = lim]_vars
    /\ [](\A c \in Callers : CancelledWhileWaiting(c) => ENABLED WaitCancelled(c))
    /\ [](\A c \in Callers :
             (callers[c].op = "Wait" /\ callers[c].pc = "done" /\ callers[c].err # Nil) =>
                 /\ callers[c].taken = 0
                 /\ callers[c].ctx # "active"
                 /\ callers[c].err = CtxErr(callers[c].ctx))

\* A Wait has returned context.Canceled before its polling interval was over.
C9_Witness ==
    \E c \in Callers :
        /\ callers[c].op = "Wait"
        /\ callers[c].pc = "done"
        /\ callers[c].err = <<"Canceled">>
        /\ now < callers[c].wakeAt
        /\ callers[c].taken = 0
        /\ ~HasToken(refill(lim, now))

\* C10 (RateLimitedProvider gating): the wrapped provider is invoked at most once per
\* call and only after this call took a token, a forwarded call has taken exactly one
\* token, and a call whose wait was cancelled has taken no token, has not invoked the
\* wrapped provider, and returns a ProviderError that is not retryable and wraps the
\* context's error.
C10_Gating ==
    \A c \in Callers :
        callers[c].op = "Translate" =>
            /\ callers[c].inner <= callers[c].taken
            /\ callers[c].taken <= 1
            /\ callers[c].pc = "forward" => callers[c].taken = 1 /\ callers[c].inner = 0
            /\ callers[c].pc = "done" =>
                  \/ callers[c].inner = 1 /\ callers[c].taken = 1
                  \/ /\ callers[c].inner = 0
                     /\ callers[c].taken = 0
                     /\ callers[c].ctx # "active"
                     /\ Head(callers[c].err) = "ProviderError-"
                     /\ Tail(callers[c].err) = CtxErr(callers[c].ctx)
                     /\ ~MarkedRetryable(callers[c].err)

\* One Translate was forwarded after waiting for a token, another returned the
\* error of a cancelled wait.
C10_Witness ==
    \E c, d \in Callers :
        /\ callers[c].op = "Translate" /\ callers[c].pc = "done"
        /\ callers[c].inner = 1 /\ callers[c].wakeAt > 0
        /\ callers[d].op = "Translate" /\ callers[d].pc = "done"
        /\ callers[d].inner = 0
        /\ callers[d].err = <<"ProviderError-", "Canceled">>

\* ----------------------------------------------------- claims C11-C12
\* What Get(k) deciding at time t must return after the Set recorded in `last`.
ExpectedGet(last, t) ==
    IF last.set /\ (imc.ttl <= 0 \/ t - last.t <= imc.ttl) THEN Hit(last.value) ELSE Miss

\* C11 (InMemoryCache lookup semantics, one caller): a Get that has returned gave
\* (v, true) exactly when the most recent Set of its key, not followed by a Clear, was
\* no older than the ttl (or the ttl is off), and ("", false) otherwise; a Get that
\* found the entry expired has removed it; and every stored entry still carries the
\* value and the time of its Set, which no Get has renewed.
C11_LookupSemantics ==
    /\ \A g \in Goroutines :
          (gcall[g].op = "Get" /\ gcall[g].pc = "done") =>
              /\ gcall[g].ret = ExpectedGet(lastSet[gcall[g].key], gcall[g].at)
              /\ (~gcall[g].ret.ok /\ lastSet[gcall[g].key].set) =>
                    gcall[g].key \notin DOMAIN imc.cache
    /\ \A k \in DOMAIN imc.cache :
          /\ lastSet[k].set
          /\ imc.cache[k] = [value |-> lastSet[k].value, timestamp |-> lastSet[k].t]

\* With a ttl of one second: the caller's third call, a Get two seconds after the Set
\* of its key, has missed and removed the entry.
C11_Witness ==
    /\ imc.ttl = 1
    /\ gcall["g1"].op = "Get" /\ gcall["g1"].pc = "done" /\ gcall["g1"].n = 3
    /\ ~gcall["g1"].ret.ok
    /\ lastSet[gcall["g1"].key].set
    /\ gcall["g1"].at - lastSet[gcall["g1"].key].t = 2
    /\ gcall["g1"].key \notin DOMAIN imc.cache

\* C12 as stated (InMemoryCache under concurrency): a Get that began after a Set of
\* its key had returned, with no other Set of the key and no Clear in progress then or
\* since, and that decided within the ttl of that Set, returned that Set's value.
C12_AsStated ==
    \A g \in Goroutines :
        ( /\ gcall[g].op = "Get" /\ gcall[g].pc = "done"
          /\ gcall[g].clean
          /\ (imc.ttl <= 0 \/ gcall[g].at - gcall[g].snap.t <= imc.ttl) )
        => gcall[g].ret = Hit(gcall[g].snap.value)

\* C12 where nothing expires: with the ttl off the statement above holds under every
\* interleaving.
C12_SafeWithoutExpiry ==
    imc.ttl = 0 =>
        \A g \in Goroutines :
            (gcall[g].op = "Get" /\ gcall[g].pc = "done" /\ gcall[g].clean)
            => gcall[g].ret = Hit(gcall[g].snap.value)

\* A Get that began after the newest Set of its key had returned, and decided at the
\* very time of that Set, has missed: the key is gone from the map.
C12_Witness ==
    \E g \in Goroutines :
        /\ gcall[g].op = "Get" /\ gcall[g].pc = "done"
        /\ gcall[g].clean
        /\ gcall[g].at = gcall[g].snap.t
        /\ gcall[g].ret = Miss
        /\ gcall[g].snap = lastSet[gcall[g].key]

\* ----------------------------------------------------- claims C13-C17
\* The backend returned results, and not as many as the request had texts.
CountMismatch == obs.returned >= 0 /\ obs.returned # Len(obs.request.Texts)

\* C13 as stated (count mismatch): once the backend has returned a number of results
\* different from the number of texts requested, nothing is cached or applied, the
\* call does not crash, and when it ends it ends with an error.
C13_AsStated ==
    CountMismatch =>
        /\ obs.cacheSets = 0
        /\ obs.applies = 0
        /\ pc # "panic"
        /\ pc = "done" => out.err # ""

\* C13 where the backend reports the mismatch itself (as OpenAIProvider's parseResponse
\* does, with a CountMismatchError): Process fails with the backend's error, nothing
\* is cached or applied, and the error, not being a ProviderError, is not retryable.
C13_MismatchReportedByBackend ==
    /\ (pc = "done" /\ out.err = "ProviderError") =>
          /\ out.Content = NoContent
          /\ obs.cacheSets = 0
          /\ obs.applies = 0
          /\ obs.returned = -1
    /\ ~IsRetryable(<<"error">>)

\* Two texts requested, one result returned: the result was cached and the call
\* crashed on results[1].
C13_Witness ==
    /\ Len(obs.request.Texts) = 2
    /\ obs.returned = 1
    /\ pc = "panic"
    /\ obs.cacheSets = 1
    /\ cache # obs.cache0

\* The entries of cache c that have not expired at time t.
LiveEntries(c, t) ==
    LET live == {k \in DOMAIN c : ~(tr.ttl > 0 /\ t - c[k].timestamp > tr.ttl)}
    IN  [k \in live |-> c[k]]

\* Process returned the error of Extract or of the backend.
FailedBeforeApply == pc = "done" /\ out.err \in {"ExtractError", "ProviderError"}

\* Every extracted unit's fingerprint has an entry in the map given to Apply.
AppliedAll == \A i \in 1..Len(nodes) : nodes[i].Hash \in DOMAIN obs.applied

\* C14 as stated (all-or-nothing): after an error of Extract or of the backend Process
\* returned no content, Apply was not invoked and the cache is what it was before the
\* call; and a successful Process gave Apply a translation for every extracted unit.
C14_AsStated ==
    /\ FailedBeforeApply =>
          /\ out.Content = NoContent
          /\ obs.applies = 0
          /\ cache = obs.cache0
    /\ (pc = "done" /\ out.err = "" /\ obs.applies = 1) => AppliedAll

\* C14, amended: after such an error the cache holds the unexpired entries it held
\* before the call (a lookup may have evicted expired ones) and nothing was written;
\* and a successful Process of a Translator that has a backend gave Apply a
\* translation for every extracted unit.
C14_AllOrNothing ==
    /\ FailedBeforeApply =>
          /\ out.Content = NoContent
          /\ obs.applies = 0
          /\ obs.cacheSets = 0
          /\ LiveEntries(cache, now) = LiveEntries(obs.cache0, now)
          /\ \A k \in DOMAIN cache : k \in DOMAIN obs.cache0 /\ cache[k] = obs.cache0[k]
    /\ (pc = "done" /\ out.err = "" /\ obs.applies = 1 /\ tr.provider) => AppliedAll

\* A call that found one unit in a cache that was not empty and failed in the backend
\* for another.
C14_Witness ==
    /\ pc = "done" /\ out.err = "ProviderError"
    /\ obs.calls = 2
    /\ cachedCount = 1
    /\ Len(cacheMisses) = 1
    /\ obs.cache0 # EmptyMap
    /\ cache = obs.cache0

\* Every unit sent to the backend has its result in the map given to Apply.
MissesApplied ==
    \A i \in 1..Len(cacheMisses) :
        /\ cacheMisses[i].Hash \in DOMAIN obs.applied
        /\ obs.applied[cacheMisses[i].Hash] = results[i]

\* The call has passed the cache lookups and the decision to invoke the backend.
PastDispatch ==
    \/ pc \in {"backend", "writeback", "apply", "panic"}
    \/ pc = "done" /\ out.err \in {"", "ApplyError", "ProviderError"}

C16_NoProcessor ==
    (pc = "done" /\ ~isSourceLang(tr) /\ contentType \notin tr.processors) =>
        /\ out.err = "ProcessorError"
        /\ out.Content = NoContent
        /\ obs.errContentType = contentType
        /\ obs.extracts = 0
        /\ obs.cacheGets = 0
        /\ obs.cacheSets = 0
        /\ obs.backendCalls = 0
        /\ obs.applies = 0
        /\ cache = obs.cache0

\* A Translator with a cache that already holds an entry was asked for a content type
\* it has no processor for.
C16_Witness ==
    /\ pc = "done" /\ out.err = "ProcessorError"
    /\ contentType \notin tr.processors
    /\ obs.errContentType = contentType
    /\ tr.cache # "none"
    /\ obs.cache0 # EmptyMap

\* Process returned successfully from a document that had text.
Succeeded == pc = "done" /\ out.err = "" /\ obs.applies = 1

\* No two extracted units share a fingerprint.
DistinctHashes == \A i, j \in 1..Len(nodes) : nodes[i].Hash = nodes[j].Hash => i = j

\* The fingerprints of the units the cache lookup found, and of those it missed.
HitHashes == {nodes[i].Hash : i \in (1..Len(nodes)) \ Range(obs.missed)}
MissedHashes == {nodes[i].Hash : i \in Range(obs.missed)}

\* C17 as stated (count invariant): a successful Process has TranslatedCount +
\* CachedCount <= TotalNodes, with equality when no two units share a fingerprint;
\* both counts count fingerprints, TotalNodes counts units.
C17_AsStated ==
    Succeeded =>
        /\ out.TranslatedCount + out.CachedCount <= out.TotalNodes
        /\ DistinctHashes => out.TranslatedCount + out.CachedCount = out.TotalNodes
        /\ out.CachedCount = Cardinality(HitHashes)
        /\ out.TotalNodes = Len(nodes)

\* C17, amended: the inequality holds for every successful Process, the equality for
\* those of a Translator that has a backend, when no two units share a fingerprint;
\* CachedCount counts every unit found in the cache, TranslatedCount every missed
\* fingerprint once (none without a backend), TotalNodes every unit.
C17_CountInvariant ==
    Succeeded =>
        /\ out.TranslatedCount + out.CachedCount <= out.TotalNodes
        /\ (DistinctHashes /\ tr.provider) =>
              out.TranslatedCount + out.CachedCount = out.TotalNodes
        /\ out.CachedCount = Len(nodes) - Len(obs.missed)
        /\ out.TranslatedCount = IF tr.provider THEN Cardinality(MissedHashes) ELSE 0
        /\ out.TotalNodes = Len(nodes)

\* A successful call with one unit from the cache and one from the backend, and one
\* with two units of one fingerprint, have both been seen in their final state.
C17_Witness ==
    /\ Succeeded
    /\ tr.provider
    /\ Len(nodes) = 2
    /\ \/ DistinctHashes /\ out.CachedCount = 1 /\ out.TranslatedCount = 1
       \/ ~DistinctHashes /\ out.TranslatedCount = 1 /\ out.CachedCount = 0

\* ----------------------------------------------------- claims C18-C20
\* The fingerprints of a sequence of nodes.
HashesOf(ns) == {ns[i].Hash : i \in 1..Len(ns)}

\* No fingerprint occurs twice in the sequence.
NoRepeat(ns) == \A i, j \in 1..Len(ns) : ns[i].Hash = ns[j].Hash => i = j

\* C18 as stated (diff round-trip): diffing a collection against itself, duplicates
\* of a fingerprint included, gives empty Added, Removed and Modified, HasChanges
\* false, and an Unchanged list as long as the collection.
C18_AsStated ==
    (dpc \in {"diffed", "done"} /\ oldNodes = newNodes) =>
        /\ diffResult.Added = <<>>
        /\ diffResult.Removed = <<>>
        /\ diffResult.Modified = <<>>
        /\ ~HasChanges(diffResult)
        /\ Len(diffResult.Unchanged) = Len(oldNodes)

\* C18 as the code has it: diffing a collection against itself reports no change and
\* one Unchanged node per distinct fingerprint.
C18_RoundTripPerFingerprint ==
    (dpc \in {"diffed", "done"} /\ oldNodes = newNodes) =>
        /\ ~HasChanges(diffResult)
        /\ Len(diffResult.Unchanged) = Cardinality(HashesOf(oldNodes))
        /\ HashesOf(diffResult.Unchanged) = HashesOf(oldNodes)

\* A collection of two nodes of one fingerprint was diffed against itself: Unchanged
\* holds one node.
C18_Witness ==
    /\ dpc = "done"
    /\ oldNodes = newNodes
    /\ Len(oldNodes) = 2
    /\ oldNodes[1].Hash = oldNodes[2].Hash
    /\ Len(diffResult.Unchanged) = 1

\* Pairs (i, j): old node i and new node j have the same ID and different
\* fingerprints, and neither fingerprint occurs on the other side.
SameIdPairs ==
    {p \in (1..Len(oldNodes)) \X (1..Len(newNodes)) :
        /\ oldNodes[p[1]].ID = newNodes[p[2]].ID
        /\ oldNodes[p[1]].Hash # newNodes[p[2]].Hash
        /\ oldNodes[p[1]].Hash \notin HashesOf(newNodes)
        /\ newNodes[p[2]].Hash \notin HashesOf(oldNodes)}

\* C19 as stated (modification detection): DiffContentWithContext reports every such
\* pair once in Modified and lists neither node in Added or Removed, and the
\* fingerprints on both sides are those of Unchanged.
C19_AsStated ==
    dpc = "done" =>
        /\ \A p \in SameIdPairs :
              /\ Cardinality({k \in 1..Len(diffResult.Modified) :
                     diffResult.Modified[k] = [Old |-> oldNodes[p[1]], New |-> newNodes[p[2]]]}) = 1
              /\ newNodes[p[2]] \notin Range(diffResult.Added)
              /\ oldNodes[p[1]] \notin Range(diffResult.Removed)
        /\ HashesOf(diffResult.Unchanged) = HashesOf(oldNodes) \cap HashesOf(newNodes)

\* C19 where the heuristic has no choice: when no fingerprint repeats within a
\* collection and no node carries a context, every such pair is reported.
C19_WithoutContexts ==
    (/\ dpc = "done"
     /\ NoRepeat(oldNodes) /\ NoRepeat(newNodes)
     /\ \A n \in Range(oldNodes) \cup Range(newNodes) : n.Context = "") =>
        /\ \A p \in SameIdPairs :
              /\ Cardinality({k \in 1..Len(diffResult.Modified) :
                     diffResult.Modified[k] = [Old |-> oldNodes[p[1]], New |-> newNodes[p[2]]]}) = 1
              /\ newNodes[p[2]] \notin Range(diffResult.Added)
              /\ oldNodes[p[1]] \notin Range(diffResult.Removed)
        /\ HashesOf(diffResult.Unchanged) = HashesOf(oldNodes) \cap HashesOf(newNodes)

\* The old node was paired with a new node of another ID that shares its context,
\* and the new node with the old node's ID is listed as Added.
C19_Witness ==
    /\ dpc = "done"
    /\ Len(oldNodes) = 1 /\ Len(newNodes) = 2
    /\ NoRepeat(newNodes)
    /\ \E p \in SameIdPairs :
          /\ newNodes[p[2]] \in Range(diffResult.Added)
          /\ Len(diffResult.Modified) = 1
          /\ diffResult.Modified[1].Old = oldNodes[p[1]]
          /\ diffResult.Modified[1].New.ID # oldNodes[p[1]].ID

\* C20 (diff partition): after DiffContent the fingerprints of Unchanged are those in
\* both collections, of Removed those only in old, of Added those only in new; no
\* fingerprint is in two lists or twice in one; nothing is reported as Modified; and
\* the reported nodes are nodes of the collection they are reported for.
C20_Partition ==
    dpc = "diffed" =>
        /\ HashesOf(diffResult.Unchanged) = HashesOf(oldNodes) \cap HashesOf(newNodes)
        /\ HashesOf(diffResult.Removed) = HashesOf(oldNodes) \ HashesOf(newNodes)
        /\ HashesOf(diffResult.Added) = HashesOf(newNodes) \ HashesOf(oldNodes)
        /\ NoRepeat(diffResult.Unchanged \o diffResult.Removed \o diffResult.Added)
        /\ diffResult.Modified = <<>>
        /\ Range(diffResult.Unchanged) \cup Range(diffResult.Removed) \subseteq Range(oldNodes)
        /\ Range(diffResult.Added) \subseteq Range(newNodes)

\* A diff of two collections of two nodes with one node in each of the three lists.
C20_Witness ==
    /\ dpc = "diffed"
    /\ Len(diffResult.Unchanged) = 1
    /\ Len(diffResult.Removed) = 1
    /\ Len(diffResult.Added) = 1
    /\ Len(oldNodes) = 2 /\ Len(newNodes) = 2

\* ----------------------------------------------------- claims C21, C27, C28
\* C21 (minimal re-translation set): after DiffContentWithContext the fingerprints of
\* NeedsTranslation() are exactly those that occur in new and not in old, whichever
\* pairs the matching formed.
C21_NeedsTranslation ==
    dpc = "done" =>
        HashesOf(NeedsTranslation(diffResult)) = HashesOf(newNodes) \ HashesOf(oldNodes)

\* A diff in which the matching formed a pair and left another node in Added.
C21_Witness ==
    /\ dpc = "done"
    /\ Len(diffResult.Modified) = 1
    /\ Len(diffResult.Added) = 1
    /\ Len(NeedsTranslation(diffResult)) = 2

\* The result of DiffContentWithContext as the claims compare it: the set of Modified
\* pairs and the sets of Added and Removed nodes.
Outcome(d) == [Modified |-> Range(d.Modified), Added |-> Range(d.Added),
               Removed |-> Range(d.Removed)]

\* The outcomes DiffContentWithContext can have on collections olds and news.
Outcomes(olds, news) ==
    {Outcome(WithContextOf(DiffOf(olds, news, po, pn))) :
        po \in IterationOrders(ByHash(olds)), pn \in IterationOrders(ByHash(news))}

\* Old node i and new node j were classified Removed and Added by DiffContent.
Candidates(i, j) ==
    /\ oldNodes[i].Hash \notin HashesOf(newNodes)
    /\ newNodes[j].Hash \notin HashesOf(oldNodes)
    /\ ByHash(oldNodes)[oldNodes[i].Hash] = oldNodes[i]
    /\ ByHash(newNodes)[newNodes[j].Hash] = newNodes[j]

\* C27 as stated (matching priority): a removed unit for which an added unit with the
\* same id exists is paired with an added unit of that id, not with another unit
\* through its context; and the paired units are in neither Added nor Removed.
C27_AsStated ==
    dpc = "done" =>
        /\ \A i \in 1..Len(oldNodes), j \in 1..Len(newNodes) :
              (Candidates(i, j) /\ oldNodes[i].ID = newNodes[j].ID) =>
                  \A k \in 1..Len(diffResult.Modified) :
                      diffResult.Modified[k].Old = oldNodes[i] =>
                          diffResult.Modified[k].New.ID = oldNodes[i].ID
        /\ \A k \in 1..Len(diffResult.Modified) :
              /\ diffResult.Modified[k].Old \notin Range(diffResult.Removed)
              /\ diffResult.Modified[k].New \notin Range(diffResult.Added)

\* C27 as the code has it: every pair matches by id or by non-empty context, each
\* removed and each added node is in at most one pair, and paired nodes are in neither
\* Added nor Removed.
C27_FirstMatchOfEitherKind ==
    dpc = "done" =>
        \A k \in 1..Len(diffResult.Modified) :
            /\ Matches(diffResult.Modified[k].Old, diffResult.Modified[k].New)
            /\ diffResult.Modified[k].Old \notin Range(diffResult.Removed)
            /\ diffResult.Modified[k].New \notin Range(diffResult.Added)
            /\ \A l \in 1..Len(diffResult.Modified) :
                  (\/ diffResult.Modified[l].Old = diffResult.Modified[k].Old
                   \/ diffResult.Modified[l].New = diffResult.Modified[k].New) => l = k

\* A removed unit was paired through its context with a unit of another id while the
\* added unit with its own id was left in Added.
C27_Witness ==
    /\ dpc = "done"
    /\ Len(diffResult.Modified) = 1
    /\ diffResult.Modified[1].New.ID # diffResult.Modified[1].Old.ID
    /\ diffResult.Modified[1].New.Context = diffResult.Modified[1].Old.Context
    /\ \E n \in Range(diffResult.Added) : n.ID = diffResult.Modified[1].Old.ID

\* C28 as stated (tie-break predictability): the outcome of a run is the outcome of
\* every run on the same two collections.
C28_AsStated ==
    dpc = "done" => Outcomes(oldNodes, newNodes) = {Outcome(diffResult)}

\* C28 for what does not depend on the order of a map: every run on the same two
\* collections gives the same fingerprints for Unchanged and for NeedsTranslation, and
\* the same number of Modified pairs when no node carries a context.
C28_OrderIndependentPart ==
    dpc = "done" =>
        /\ HashesOf(diffResult.Unchanged) = HashesOf(oldNodes) \cap HashesOf(newNodes)
        /\ HashesOf(NeedsTranslation(diffResult)) = HashesOf(newNodes) \ HashesOf(oldNodes)
        /\ (\A n \in Range(oldNodes) \cup Range(newNodes) : n.Context = "") =>
              Outcomes(oldNodes, newNodes) = {Outcome(diffResult)}

\* Two added units share the context of the one removed unit, and the same input has
\* two outcomes.
C28_Witness ==
    /\ dpc = "done"
    /\ Len(oldNodes) = 1 /\ Len(newNodes) = 2
    /\ newNodes[1].Context = oldNodes[1].Context
    /\ newNodes[2].Context = oldNodes[1].Context
    /\ oldNodes[1].Context # ""
    /\ Cardinality(Outcomes(oldNodes, newNodes)) = 2

\* ----------------------------------------------------- claims C29-C30
\* Every unit has been looked up (in the cache, when there is one).
LookupsComplete ==
    /\ tr.cache # "none" => obs.cacheGets = Len(nodes)
    /\ Len(obs.missed) + cachedCount = Len(nodes)

\* C29 (ordering within one Process call): no cache lookup before Extract; the backend
\* is called at most once and only after every unit was looked up; a cache write only
\* after the backend has returned; Apply only after the lookups, the backend's return
\* and the write-backs of all misses, with the parsed form and the units of Extract;
\* the HTML attributes are set on what Apply returned.
C29_Ordering ==
    /\ obs.cacheGets > 0 => obs.extracts = 1
    /\ pc \in {"lookup", "dispatch"} =>
          obs.extracts = 1 /\ obs.backendCalls = 0 /\ obs.cacheSets = 0 /\ obs.applies = 0
    /\ obs.backendCalls <= 1
    /\ obs.backendCalls = 1 => LookupsComplete
    /\ pc = "backend" => obs.cacheSets = 0 /\ obs.applies = 0 /\ translatedCount = 0
    /\ (obs.cacheSets > 0 \/ translatedCount > 0) =>
          obs.backendCalls = 1 /\ obs.returned >= 0 /\ pc # "backend"
    /\ pc = "writeback" => obs.applies = 0
    /\ obs.applies <= 1
    /\ obs.applies = 1 =>
          /\ pc = "done"
          /\ obs.extracts = 1
          /\ LookupsComplete
          /\ obs.backendCalls = 1 =>
                obs.returned >= 0 /\ translatedCount = Len(cacheMisses)
          /\ obs.applyParsed = obs.parsed
          /\ obs.applyNodes = Extract(obs.parsed)
          /\ obs.applied = translations
          /\ (out.err = "" /\ contentType = "html") =>
                out.Content = setHTMLAttributes(tr, Apply(obs.parsed, obs.applyNodes, obs.applied))
          /\ (out.err = "" /\ contentType # "html") =>
                out.Content = Apply(obs.parsed, obs.applyNodes, obs.applied)

\* A call that found one unit in the cache, sent another to the backend, cached the
\* result, applied both and set the HTML attributes.
C29_Witness ==
    /\ pc = "done" /\ out.err = ""
    /\ contentType = "html"
    /\ Len(nodes) = 2
    /\ obs.cacheGets = 2 /\ cachedCount = 1
    /\ obs.backendCalls = 1 /\ obs.cacheSets = 1
    /\ obs.applies = 1

\* C30 as stated (single batched dispatch): the backend is invoked at most once in a
\* Process call, once exactly when a unit missed the cache, with a request that has
\* every missed fingerprint's text and, at the same index, its context.
C30_AsStated ==
    /\ obs.backendCalls <= 1
    /\ PastDispatch => (obs.backendCalls = 1 <=> Len(obs.missed) >= 1)
    /\ obs.backendCalls = 1 =>
          /\ Len(obs.request.Texts) = Len(obs.request.TextContexts)
          /\ Len(obs.request.Texts) = Len(cacheMisses)
          /\ MissedHashes = {HashText(obs.request.Texts[i]) : i \in 1..Len(obs.request.Texts)}
          /\ \A i \in 1..Len(obs.request.Texts) :
                \E k \in Range(obs.missed) :
                    /\ nodes[k] = cacheMisses[i]
                    /\ nodes[k].Text = obs.request.Texts[i]
                    /\ nodes[k].Context = obs.request.TextContexts[i]

\* C30, amended: the same for a Translator that has a backend; one without never
\* invokes any.
C30_SingleDispatch ==
    /\ obs.backendCalls <= 1
    /\ PastDispatch => (obs.backendCalls = 1 <=> (Len(obs.missed) >= 1 /\ tr.provider))
    /\ obs.backendCalls = 1 =>
          /\ Len(obs.request.Texts) = Len(obs.request.TextContexts)
          /\ Len(obs.request.Texts) = Len(cacheMisses)
          /\ MissedHashes = {HashText(obs.request.Texts[i]) : i \in 1..Len(obs.request.Texts)}
          /\ \A i \in 1..Len(obs.request.Texts) :
                \E k \in Range(obs.missed) :
                    /\ nodes[k] = cacheMisses[i]
                    /\ nodes[k].Text = obs.request.Texts[i]
                    /\ nodes[k].Context = obs.request.TextContexts[i]

\* A call with three units of which one was cached: one request with the two others.
C30_Witness ==
    /\ Len(nodes) = 3
    /\ cachedCount = 1
    /\ obs.backendCalls = 1
    /\ Len(obs.request.Texts) = 2
    /\ obs.request.TextContexts[1] # obs.request.TextContexts[2]
    /\ pc = "done" /\ out.err = ""

\* ----------------------------------------------------- claim C26
\* min(BaseDelay * 2^(k-1), MaxDelay), the delay before retry k.
Backoff(c, k) == Min(c.BaseDelay * (2 ^ (k - 1)), c.MaxDelay)

\* The product BaseDelay * 2^(k-1) fits a duration.
Fits(c, k) == c.BaseDelay * (2 ^ (k - 1)) < 2 ^ (DurationBits - 1)

\* C26 as stated (backoff schedule): the k-th delay slept is min(BaseDelay * 2^(k-1),
\* MaxDelay), there are at most MaxRetries of them, and none follows the final attempt.
C26_AsStated ==
    /\ \A k \in 1..Len(slept) : slept[k] = Backoff(cfg, k)
    /\ Len(slept) <= (IF cfg.MaxRetries > 0 THEN cfg.MaxRetries ELSE 0)
    /\ Len(slept) <= Len(fnLog)
    /\ (rpc = "done" /\ cfg.MaxRetries >= 0 /\ Len(fnLog) = cfg.MaxRetries + 1) =>
          Len(slept) = cfg.MaxRetries

\* C26 where the product does not overflow: the k-th delay slept is min(BaseDelay *
\* 2^(k-1), MaxDelay) whenever BaseDelay * 2^(k-1) fits a duration; and in every case
\* there are at most MaxRetries delays and none after the final attempt.
C26_BackoffWithoutOverflow ==
    /\ \A k \in 1..Len(slept) : Fits(cfg, k) => slept[k] = Backoff(cfg, k)
    /\ Len(slept) <= (IF cfg.MaxRetries > 0 THEN cfg.MaxRetries ELSE 0)
    /\ Len(slept) <= Len(fnLog)
    /\ (rpc = "done" /\ cfg.MaxRetries >= 0 /\ Len(fnLog) = cfg.MaxRetries + 1) =>
          Len(slept) = cfg.MaxRetries

\* The second delay of a run was negative: the doubled BaseDelay overflowed.
C26_Witness ==
    /\ Len(slept) = 2
    /\ slept[1] = Backoff(cfg, 1)
    /\ slept[2] < 0
    /\ Backoff(cfg, 2) = cfg.MaxDelay
    /\ Len(fnLog) = 3
\* ------------------------------------------------------------ C23
\* The fingerprints of the batch whose composite key the cache held at the call.
CachedHashes ==
    {h \in UniqueHashes(par.nodes) : CacheKey(h, par.t.targetLang) \in DOMAIN par.cache0}

\* The index of the first node of the batch with fingerprint h.
FirstIndex(h) ==
    CHOOSE i \in 1..Len(par.nodes) :
        /\ par.nodes[i].Hash = h
        /\ \A j \in 1..(i - 1) : par.nodes[j].Hash # h

\* ParallelCacheLookup has returned to TranslateBatchParallel.
ParallelLookupReturned == par.pc = "dispatch" /\ par.path = "parallel"

\* C23: whatever the order in which the goroutines ran and their results were
\* received, ParallelCacheLookup on a cache that does not change returns a hit map
\* holding exactly the input fingerprints whose composite key is cached, with the
\* cached values, and a miss list holding every other distinct input fingerprint
\* exactly once, in the order of its first occurrence in the input.
C23_DeterministicLookup ==
    ParallelLookupReturned =>
        /\ par.cache = par.cache0
        /\ DOMAIN par.translations = CachedHashes
        /\ \A h \in CachedHashes :
               par.translations[h] = par.cache0[CacheKey(h, par.t.targetLang)].value
        /\ {par.cacheMisses[k].Hash : k \in 1..Len(par.cacheMisses)}
               = UniqueHashes(par.nodes) \ CachedHashes
        /\ \A k \in 1..Len(par.cacheMisses) :
               par.cacheMisses[k] = par.nodes[FirstIndex(par.cacheMisses[k].Hash)]
        /\ \A k, l \in 1..Len(par.cacheMisses) :
               k < l => FirstIndex(par.cacheMisses[k].Hash) < FirstIndex(par.cacheMisses[l].Hash)

\* A parallel lookup has returned for a batch of three units in which a missed
\* fingerprint occurs twice, first after a cached one.
C23_Witness ==
    /\ ParallelLookupReturned
    /\ Len(par.nodes) = 3
    /\ par.nodes[1].Hash \in CachedHashes
    /\ par.nodes[2].Hash = par.nodes[3].Hash
    /\ par.nodes[2].Hash \notin CachedHashes
    /\ Len(par.cacheMisses) = 1
\* ------------------------------------------------------------ C22
\* translateBatch, lines 189-250, on translator t, cache c and batch ns, with the
\* backend answering as in the observed call: what the sequential path returns.
SequentialOutcome(t, c, ns, fails, v) ==
    LET lk == SequentialLookup(t, c, ns)
        req == TranslateRequest(t, lk.cacheMisses)
    IN  IF Len(lk.cacheMisses) > 0 /\ t.provider
        THEN AfterBackend(t, c, lk.translations, lk.cachedCount, lk.cacheMisses, req,
                          fails, BackendResults(req.Texts, v, 0))
        ELSE WithoutBackend(c, lk.translations, lk.cachedCount)

\* The call took the parallel path and has returned.
ParallelDone == par.pc = "done" /\ par.path = "parallel"

\* What translateBatch returns for the inputs of the observed call.
SequentialTwin == SequentialOutcome(par.t, par.cache0, par.nodes, par.fails, par.v)

\* C22 as stated: a call on the parallel path returns the translation map, the
\* counts, the backend request and the cache contents that translateBatch produces
\* for the same units, configuration and cache.
C22_AsStated == ParallelDone => par.out = SequentialTwin

\* C22, the part that holds: the two paths agree on the translation map, on
\* translatedCount, on the error, on the cache contents afterwards and on the
\* request's texts, contexts, languages, excluded terms and global context.
C22_EquivalentExceptRequestOptionsAndCachedCount ==
    ParallelDone =>
        /\ par.out.translations = SequentialTwin.translations
        /\ par.out.translatedCount = SequentialTwin.translatedCount
        /\ par.out.err = SequentialTwin.err
        /\ par.out.cache = SequentialTwin.cache
        /\ par.out.request.Texts = SequentialTwin.request.Texts
        /\ par.out.request.TextContexts = SequentialTwin.request.TextContexts
        /\ par.out.request.TargetLang = SequentialTwin.request.TargetLang
        /\ par.out.request.SourceLang = SequentialTwin.request.SourceLang
        /\ par.out.request.ExcludedTerms = SequentialTwin.request.ExcludedTerms
        /\ par.out.request.Context = SequentialTwin.request.Context
        /\ par.out.err = "" =>
               par.out.cachedCount = Cardinality(DOMAIN SequentialLookup(par.t, par.cache0,
                                                     par.nodes).translations)

\* A parallel call has returned without error for a batch holding a cached text
\* twice and an uncached text that the backend translated.
C22_Witness ==
    /\ ParallelDone
    /\ par.out.err = ""
    /\ par.out.translatedCount = 1
    /\ par.out.cachedCount = 1
    /\ SequentialTwin.cachedCount = 2
    /\ par.out.request # SequentialTwin.request
\* ------------------------------------------------------------ C24
\* Import has returned for a document that decodes.
ImportReturned == xfer.pc = "done" /\ xfer.decodable

\* C24: for a decodable document with n entries, Import calls Set once for each
\* entry, in document order and with the entry's key and value, goes on after a Set
\* that fails, and returns Imported + Failed = n, Failed being the number of Set
\* calls that returned an error.
C24_ImportNeverAborts ==
    /\ xfer.pc = "import" => Len(xfer.sets) = xfer.i - 1
    /\ ImportReturned =>
           /\ xfer.err = ""
           /\ xfer.entries = DecodeDocument(xfer.document)
           /\ Len(xfer.sets) = Len(xfer.document)
           /\ \A k \in 1..Len(xfer.sets) :
                  /\ xfer.sets[k].Key = xfer.entries[k].Key
                  /\ xfer.sets[k].Value = xfer.entries[k].Value
           /\ xfer.Imported + xfer.Failed = Len(xfer.document)
           /\ xfer.Failed = Cardinality({k \in 1..Len(xfer.sets) : xfer.sets[k].failed})

\* An import of two entries has returned after the first Set failed and the second
\* succeeded.
C24_Witness ==
    /\ ImportReturned
    /\ Len(xfer.document) = 2
    /\ xfer.sets[1].failed
    /\ ~xfer.sets[2].failed
    /\ xfer.Imported = 1
    /\ xfer.Failed = 1
\* ------------------------------------------------------------ C25
\* An exported InMemoryCache has been imported into the empty target, every Set
\* succeeded and no time has passed since the export.
RoundTripDone ==
    /\ xfer.pc = "done"
    /\ xfer.exported
    /\ xfer.Failed = 0
    /\ now = xfer.exportedAt

\* Get on the target cache, now.
TargetGet(key) == CacheGet(xfer.target, xfer.cache, key, now, FALSE)

\* The keys Get may be asked for: those of the source and their decoded forms.
AskedKeys == XferKeys \cup {JSONDecode(JSONEncode(k)) : k \in XferKeys}

\* The entries of the source that were live at the export hold valid UTF-8 only.
ExportedValidUTF8 ==
    \A k \in DOMAIN xfer.live : ValidUTF8(k) /\ ValidUTF8(xfer.live[k])

\* The document holds one entry for each key of data and no other.
EmitsExactly(data) ==
    /\ Len(xfer.entries) = Cardinality(DOMAIN data)
    /\ \A k \in DOMAIN data :
           \E i \in 1..Len(xfer.entries) :
               xfer.entries[i] = [Key |-> k, Value |-> data[k]]

\* The target answers Get with the values of data, for the keys of data only.
TargetHolds(data) ==
    \A k \in AskedKeys :
        IF k \in DOMAIN data
        THEN TargetGet(k).found /\ TargetGet(k).value = data[k]
        ELSE ~TargetGet(k).found

\* C25 as stated: the export emits exactly the live entries of the source, each key
\* once, and after the import Get on the target returns the same value for exactly
\* those keys; entries expired at the export are absent.
C25_AsStated ==
    RoundTripDone =>
        /\ xfer.live = Entries(xfer.source, xfer.sourceTTL, xfer.exportedAt)
        /\ EmitsExactly(xfer.live)
        /\ TargetHolds(xfer.live)

\* C25, the part that holds: the round trip is exact when the live keys and values
\* are valid UTF-8.
C25_RoundTripOfValidUTF8 ==
    (RoundTripDone /\ ExportedValidUTF8) =>
        /\ xfer.live = Entries(xfer.source, xfer.sourceTTL, xfer.exportedAt)
        /\ EmitsExactly(xfer.live)
        /\ TargetHolds(xfer.live)

\* A round trip is complete for a source that held one live entry with an escaped
\* character and one expired entry.
C25_Witness ==
    /\ RoundTripDone
    /\ ExportedValidUTF8
    /\ Cardinality(DOMAIN xfer.source) = 2
    /\ Cardinality(DOMAIN xfer.live) = 1
    /\ \E k \in DOMAIN xfer.live : xfer.live[k] = <<"<">> /\ TargetGet(k).found
    /\ xfer.Imported = 1
\* ------------------------------------------------------------ C35
\* WithRetry has returned a nil error.
ReturnedNil == rpc = "done" /\ ret.err = Nil

\* C35 as stated: for every RetryConfig, WithRetry returns a nil error only if the
\* operation was invoked and its last invocation returned a nil error, the value
\* returned being that invocation's result; and with a context that is not cancelled
\* the operation is invoked at least once.
C35_AsStated ==
    /\ ReturnedNil =>
           /\ Len(fnLog) >= 1
           /\ fnLog[Len(fnLog)].err = Nil
           /\ ret.value = fnLog[Len(fnLog)].value
    /\ (rpc = "done" /\ ctx = "active") => Len(fnLog) >= 1

\* C35 for MaxRetries >= 0: the statement above.
C35_RealSuccessNonNegative ==
    cfg.MaxRetries >= 0 =>
        /\ ReturnedNil =>
               /\ Len(fnLog) >= 1
               /\ fnLog[Len(fnLog)].err = Nil
               /\ ret.value = fnLog[Len(fnLog)].value
        /\ (rpc = "done" /\ ctx = "active") => Len(fnLog) >= 1

\* MaxRetries = -1: WithRetry has returned the zero value and a nil error, the loop
\* body never having run.
C35_Witness ==
    /\ ReturnedNil
    /\ cfg.MaxRetries = -1
    /\ attempt = 0
    /\ fnLog = <<>>
    /\ slept = <<>>
    /\ ret = [value |-> 0, err |-> Nil, id |-> 0]
\* ------------------------------------------------------------ C32
\* The call of Wait that c1 entered with its context cancelled.
CancelledCall ==
    /\ callers["c1"].n = 1
    /\ callers["c1"].op = "Wait"
    /\ callers["c1"].ctx = "Canceled"

\* C32 as stated: a Wait call whose context is cancelled never acquires a token and
\* never returns nil; it returns the context's error.
C32_AsStated ==
    CancelledCall =>
        /\ callers["c1"].taken = 0
        /\ callers["c1"].pc = "done" => callers["c1"].err = CtxErr(callers["c1"].ctx)

\* C32, the part that holds: a Wait entered with a cancelled context returns nil
\* exactly when one of its TryAcquire calls found a token, which it then took, and
\* the context's error otherwise, from its select.
C32_CancellationSeenOnlyInSelect ==
    CancelledCall =>
        /\ callers["c1"].taken <= 1
        /\ callers["c1"].taken = 1 => callers["c1"].ok
        /\ callers["c1"].pc = "done" =>
               \/ callers["c1"].ok /\ callers["c1"].taken = 1 /\ callers["c1"].err = Nil
               \/ /\ ~callers["c1"].ok
                  /\ callers["c1"].taken = 0
                  /\ callers["c1"].err = CtxErr(callers["c1"].ctx)
                  /\ callers["c1"].wakeAt > 0

\* Wait was entered with a cancelled context on a full bucket and has returned nil
\* at once, one token poorer.
C32_Witness ==
    /\ CancelledCall
    /\ callers["c1"].pc = "done"
    /\ callers["c1"].err = Nil
    /\ callers["c1"].taken = 1
    /\ callers["c1"].wakeAt = 0
    /\ now = 0
\* ------------------------------------------------------------ C34
\* C34 (admission bound): the token count stays within [0, burst], and the
\* admissions numbered i to j, which fall into the window from the time of the i-th
\* to the time of the j-th, are at most burst + refillRate * (length of the window).
C34_AdmissionBound ==
    /\ lim.tokens >= 0
    /\ lim.tokens <= lim.maxTokens
    /\ \A i, j \in 1..Len(Admissions) :
           i <= j =>
               (j - i + 1) * TokenUnit
                   <= lim.maxTokens + lim.refillRate * (Admissions[j].t - Admissions[i].t)

\* Burst 2 at one token in two seconds: three admissions within two seconds, as
\* many as the bound allows, and the bucket empty.
C34_Witness ==
    /\ Burst = 2
    /\ Len(Admissions) = 3
    /\ Admissions[3].t - Admissions[1].t = 2
    /\ 3 * TokenUnit = lim.maxTokens + lim.refillRate * 2
    /\ lim.tokens < TokenUnit
\* ------------------------------------------------------------ C33
\* The Wait call of c1 has acquired a token and returned nil.
WaitReturnedNil ==
    /\ callers["c1"].pc = "done"
    /\ callers["c1"].ok
    /\ callers["c1"].taken = 1
    /\ callers["c1"].err = Nil

\* The other caller is not inside a call.
OthersQuiet == callers["c2"].pc \in {"idle", "done"}

\* C33 as stated: a Wait call whose context is never cancelled eventually acquires
\* a token and returns nil, whatever the other callers of the limiter do.
C33_AsStated == <>WaitReturnedNil

\* C33, the part that holds: the Wait call eventually acquires a token and returns
\* nil when the other callers eventually stop calling.
C33_LivenessOnceOthersStop == (<>[]OthersQuiet) => <>WaitReturnedNil

\* The Wait call has returned nil from a bucket of burst 1 from which the other
\* caller has also taken a token: one of the two came from a refill.
C33_Witness ==
    /\ WaitReturnedNil
    /\ Burst = 1
    /\ callers["c2"].pc = "done"
    /\ callers["c2"].taken = 1
\* ------------------------------------------------------------ C37
\* The Old sides and the New sides of the Modified pairs.
ModifiedOld == [k \in 1..Len(diffResult.Modified) |-> diffResult.Modified[k].Old]

ModifiedNew == [k \in 1..Len(diffResult.Modified) |-> diffResult.Modified[k].New]

\* C37 (diff conservation): in the result of DiffContentWithContext every
\* fingerprint found only in the old collection appears exactly once, in Removed or
\* as the Old side of a Modified pair, every fingerprint found only in the new
\* collection exactly once, in Added or as the New side of a pair, and no unit
\* takes part in two pairs.
C37_Conservation ==
    dpc = "done" =>
        /\ NoRepeat(diffResult.Removed \o ModifiedOld)
        /\ HashesOf(diffResult.Removed \o ModifiedOld)
               = HashesOf(oldNodes) \ HashesOf(newNodes)
        /\ NoRepeat(diffResult.Added \o ModifiedNew)
        /\ HashesOf(diffResult.Added \o ModifiedNew)
               = HashesOf(newNodes) \ HashesOf(oldNodes)
        /\ \A k, l \in 1..Len(diffResult.Modified) :
               k # l => /\ ModifiedOld[k] # ModifiedOld[l]
                        /\ ModifiedNew[k] # ModifiedNew[l]

\* Two old-only fingerprints and one new-only: both old nodes match the new node,
\* one pair was formed and the other old node stays in Removed.
C37_Witness ==
    /\ dpc = "done"
    /\ Len(diffResult.Modified) = 1
    /\ Len(diffResult.Removed) = 1
    /\ Len(diffResult.Added) = 0
    /\ Matches(diffResult.Removed[1], ModifiedNew[1])
\* ------------------------------------------------------------ C39
\* The evidence the claim asks of a pair: a shared ID that is not empty, or a shared
\* context that is not empty.
RealEvidence(old, new) ==
    \/ old.ID # EmptyID /\ old.ID = new.ID
    \/ old.Context # "" /\ old.Context = new.Context

\* C39 as stated: DiffContentWithContext pairs a removed unit with an added unit
\* only if they share a non-empty id or a non-empty context; units without ids
\* whose contexts are empty or different stay in Removed and Added.
C39_AsStated ==
    dpc = "done" =>
        \A k \in 1..Len(diffResult.Modified) :
            RealEvidence(diffResult.Modified[k].Old, diffResult.Modified[k].New)

\* C39, the part that holds: every pair shares a non-empty context or has equal
\* ids, the empty id counting as an id; pairs of nodes that have ids rest on real
\* evidence.
C39_PairsMatchIDOrContext ==
    dpc = "done" =>
        \A k \in 1..Len(diffResult.Modified) :
            /\ Matches(diffResult.Modified[k].Old, diffResult.Modified[k].New)
            /\ (diffResult.Modified[k].Old.ID # EmptyID \/ diffResult.Modified[k].New.ID # EmptyID)
                   => RealEvidence(diffResult.Modified[k].Old, diffResult.Modified[k].New)

\* Two nodes without ids, one in <p> and one in <h1>, were paired as Modified.
C39_Witness ==
    /\ dpc = "done"
    /\ Len(diffResult.Modified) = 1
    /\ diffResult.Modified[1].Old.ID = EmptyID
    /\ diffResult.Modified[1].New.ID = EmptyID
    /\ diffResult.Modified[1].Old.Context = "in <p>"
    /\ diffResult.Modified[1].New.Context = "in <h1>"
    /\ diffResult.Added = <<>>
    /\ diffResult.Removed = <<>>
\* ------------------------------------------------------------ C36
\* The hashes of the results waiting in the channel, oldest first.
InChannel == [k \in 1..Len(par.results) |-> par.results[k].hash]

\* The sequence holds every element of S exactly once.
EachOnce(seq, S) == Len(seq) = Cardinality(S) /\ Range(seq) = S

\* The fan-out and fan-in of one parallel lookup: every distinct fingerprint has
\* exactly one worker, which is before its Get, before its send or done; no send
\* finds the channel closed or full; the channel is closed only when every worker is
\* done; the results received and those in the channel are the results sent, in
\* order; and the collector returns only with one result of each fingerprint.
FanIn ==
    (par.path = "parallel" /\ Len(par.nodes) > 0) =>
        /\ par.pc # "panic"
        /\ par.pending \cap DOMAIN par.sending = {}
        /\ EachOnce(par.sends, UniqueHashes(par.nodes) \ (par.pending \cup DOMAIN par.sending))
        /\ par.wg = Cardinality(par.pending) + Cardinality(DOMAIN par.sending)
        /\ DOMAIN par.sending # {} => Len(par.results) < par.capacity
        /\ par.closed => par.wg = 0
        /\ par.received \o InChannel = par.sends
        /\ par.pc # "lookup" =>
               /\ par.closed
               /\ EachOnce(par.received, UniqueHashes(par.nodes))

\* C36 (fan-in terminates): the above in every state, a closed channel stays
\* closed, and every parallel lookup that starts returns.
C36_FanInTerminates ==
    /\ []FanIn
    /\ [][par.closed => par'.closed]_vars
    /\ (par.pc = "lookup") ~> ParallelLookupReturned

\* A lookup of three units with two fingerprints: one worker has sent, the other
\* holds its result, and the collector has received nothing yet.
C36_Witness ==
    /\ par.pc = "lookup"
    /\ Len(par.nodes) = 3
    /\ par.capacity = 2
    /\ Len(par.results) = 1
    /\ Cardinality(DOMAIN par.sending) = 1
    /\ par.wg = 1
    /\ par.received = <<>>
    /\ ~par.closed

\* ------------------------------------------------------------ C31
\* The entry the cache holds for fingerprint h in the translator's target language.
StoredFor(h) ==
    LET k == CacheKey(h, tr.targetLang)
    IN  IF k \in DOMAIN cache THEN cache[k].value ELSE <<>>

\* Everything the call sent to the backend is in the cache under its composite key,
\* with the result the backend returned at its index.
WrittenBack ==
    \A i \in 1..Len(cacheMisses) :
        /\ CacheKey(cacheMisses[i].Hash, tr.targetLang) \in DOMAIN cache
        /\ StoredFor(cacheMisses[i].Hash) = results[i]

\* C31: write-back completeness.  When a Process call has returned successfully,
\* TranslatedCount is the number of texts it sent to the backend; and if it sent any
\* and no Set of its cache failed, the cache maps CacheKey(f, targetLang), for every
\* fingerprint f sent, to the result the backend returned at f's index.
C31_WriteBackComplete ==
    (pc = "done" /\ out.err = "") =>
        /\ out.TranslatedCount = Len(obs.request.Texts)
        /\ (RequestSent /\ tr.cache # "none" /\ ~obs.setFailed) => WrittenBack

\* A successful call that sent two fingerprints to the backend and wrote both results
\* to its cache.
C31_Witness ==
    /\ Succeeded
    /\ RequestSent
    /\ tr.cache # "none"
    /\ ~obs.setFailed
    /\ Len(cacheMisses) = 2
    /\ out.TranslatedCount = 2
    /\ StoredFor(cacheMisses[2].Hash) = results[2]
    /\ results[1] # results[2]

\* ------------------------------------------- concurrent Process calls
\* Goroutines calling Process on one Translator, which owns one InMemoryCache
\* that never expires its entries (ttl = 0).  tr is the Translator and cache the
\* cache's map; every call has its own locals.
\* The translators with an InMemoryCache without expiry.
ConcTranslators == {t \in Translators : t.cache = "memory" /\ t.ttl = 0}

\* The documents the concurrent calls are given: paragraphs only.
ConcDocuments ==
    {d \in Documents : /\ Len(d.elems) <= MaxConcNodes
                       /\ \A i \in 1..Len(d.elems) : d.elems[i].ctx = "p"}

\* A goroutine that is not in a call.
NoCall ==
    [pc |-> "idle", nodes |-> <<>>, idx |-> 0, translations |-> EmptyMap,
     cacheMisses |-> <<>>, seenHashes |-> {}, cachedCount |-> 0, translatedCount |-> 0,
     results |-> <<>>, out |-> Failed("none"), sent |-> {}, before |-> {}]

\* The fingerprints of a list of nodes.
Hashes(ns) == {ns[i].Hash : i \in 1..Len(ns)}

\* What a returning call leaves behind for an observer: the fingerprints it sent to
\* the backend, each with whether the backend answered with results.
Sent(call, answered) == {[Hash |-> h, answered |-> answered] : h \in call.sent}

\* A call's locals go out of scope when it returns.
Return(call, o) ==
    [NoCall EXCEPT !.pc = "done", !.out = o]

\* No goroutine has panicked: a panic in any of them ends the program.
Running == \A g \in Goroutines : procs.call[g].pc # "panic"

ProcsInit ==
    procs = [pc |-> "on", calls |-> 0, call |-> [g \in Goroutines |-> NoCall],
             returned |-> {}]

\* Process, lines 123-162, called by goroutine g.
GoProcess(g, c, ct, extractFails) ==
    LET call == procs.call[g]
        started == [NoCall EXCEPT !.before = procs.returned]
    IN  /\ Running
        /\ call.pc \in {"idle", "done"}
        /\ procs.calls < MaxConcCalls
        /\ procs' = [procs EXCEPT !.calls = @ + 1, !.call[g] =
              IF isSourceLang(tr)
              THEN Return(started, Returned("", c, 0, 0, 0))
              ELSE IF ~HasProcessor(tr, ct)
              THEN Return(started, Failed("ProcessorError"))
              ELSE IF extractFails
              THEN Return(started, Failed("ExtractError"))
              ELSE IF Len(Extract(c)) = 0
              THEN Return(started, Returned("", c, 0, 0, 0))
              ELSE [started EXCEPT !.pc = "lookup", !.nodes = Extract(c), !.idx = 1]]
        /\ UNCHANGED <<now, tr, cache, trLocals, exceptProcs>>

\* translateBatch, lines 196-212: one iteration of goroutine g's cache-check loop.
GoLookup(g) ==
    LET call == procs.call[g]
        node == call.nodes[call.idx]
        r == CacheGet(tr, cache, CacheKey(node.Hash, tr.targetLang), now, FALSE)
    IN  /\ Running
        /\ call.pc = "lookup"
        /\ cache' = r.cache
        /\ procs' = [procs EXCEPT !.call[g] =
              [(IF r.found
                THEN [call EXCEPT !.translations = MapPut(@, node.Hash, r.value),
                                  !.cachedCount = @ + 1]
                ELSE [call EXCEPT !.cacheMisses = AppendMiss(@, call.seenHashes, node),
                                  !.seenHashes = @ \cup {node.Hash}])
               EXCEPT !.idx = IF call.idx = Len(call.nodes) THEN 1 ELSE @ + 1,
                      !.pc = AfterLookup(call.idx, Len(call.nodes))]]
        /\ UNCHANGED <<now, tr, trLocals, exceptProcs>>

\* translateBatch, lines 216-233: goroutine g's one call of provider.Translate, if any.
GoDispatch(g) ==
    LET call == procs.call[g]
    IN  /\ Running
        /\ call.pc = "dispatch"
        /\ procs' = [procs EXCEPT !.call[g] =
              IF Len(call.cacheMisses) > 0 /\ tr.provider
              THEN [call EXCEPT !.pc = "backend", !.sent = Hashes(call.cacheMisses)]
              ELSE [call EXCEPT !.pc = "apply"]]
        /\ UNCHANGED <<now, tr, cache, trLocals, exceptProcs>>

\* provider.Translate returns to goroutine g: an error (lines 234-236, Process
\* returns it) or a list of results.
GoBackendReturn(g, fails, v, delta) ==
    LET call == procs.call[g]
        texts == TranslateRequest(tr, call.cacheMisses).Texts
    IN  /\ Running
        /\ call.pc = "backend"
        /\ procs' = IF fails
                    THEN [procs EXCEPT !.call[g] = Return(call, Failed("ProviderError")),
                                       !.returned = @ \cup Sent(call, FALSE)]
                    ELSE [procs EXCEPT !.call[g] =
                            [call EXCEPT !.results = BackendResults(texts, v, delta),
                                         !.pc = "writeback"]]
        /\ UNCHANGED <<now, tr, cache, trLocals, exceptProcs>>

\* translateBatch, lines 239-246: one iteration of goroutine g's write-back loop.
GoWriteBack(g) ==
    LET call == procs.call[g]
    IN  /\ Running
        /\ call.pc = "writeback"
        /\ IF call.idx > Len(call.results)
           THEN /\ procs' = [procs EXCEPT !.call[g].pc = "panic"]
                /\ cache' = cache
           ELSE LET node == call.cacheMisses[call.idx]
                IN  /\ cache' = CacheSet(tr, cache, CacheKey(node.Hash, tr.targetLang),
                                         call.results[call.idx], now, FALSE)
                    /\ procs' = [procs EXCEPT !.call[g] =
                          [call EXCEPT
                              !.translations = MapPut(@, node.Hash, call.results[call.idx]),
                              !.translatedCount = @ + 1,
                              !.idx = @ + 1,
                              !.pc = AfterWriteBack(call.idx, Len(call.cacheMisses))]]
        /\ UNCHANGED <<now, tr, trLocals, exceptProcs>>

\* Process, lines 164-180: Apply and goroutine g's return.  The content returned is
\* call-local and left out of the record.
GoApply(g, fails) ==
    LET call == procs.call[g]
    IN  /\ Running
        /\ call.pc = "apply"
        /\ procs' = [procs EXCEPT
              !.call[g] = Return(call,
                             IF fails THEN Failed("ApplyError")
                             ELSE Returned("", NoContent, call.translatedCount,
                                           call.cachedCount, TotalNodes(call.nodes))),
              !.returned = @ \cup Sent(call, TRUE)]
        /\ UNCHANGED <<now, tr, cache, trLocals, exceptProcs>>

InitProcesses ==
    /\ now = 0
    /\ tr \in ConcTranslators
    /\ cache = EmptyMap
    /\ pc = "off"
    /\ content = NoContent
    /\ contentType = ""
    /\ nodes = <<>>
    /\ idx = 0
    /\ translations = EmptyMap
    /\ cacheMisses = <<>>
    /\ seenHashes = {}
    /\ cachedCount = 0
    /\ translatedCount = 0
    /\ results = <<>>
    /\ out = Failed("none")
    /\ obs = NoObs
    /\ prev = NoPrev
    /\ RetryIdle
    /\ LimIdle
    /\ CacheIdle
    /\ DiffIdle
    /\ ParIdle
    /\ XferIdle
    /\ ProcsInit

NextProcesses ==
    \/ \E g \in Goroutines, c \in ConcDocuments, ct \in ContentTypes, extractFails \in BOOLEAN :
          GoProcess(g, c, ct, extractFails)
    \/ \E g \in Goroutines : GoLookup(g)
    \/ \E g \in Goroutines : GoDispatch(g)
    \/ \E g \in Goroutines, o \in BackendOutcomes : GoBackendReturn(g, o[1], o[2], o[3])
    \/ \E g \in Goroutines : GoWriteBack(g)
    \/ \E g \in Goroutines, fails \in BOOLEAN : GoApply(g, fails)

SpecProcesses == InitProcesses /\ [][NextProcesses]_vars

\* ------------------------------------------------------------ C38
\* Goroutine g's call has made its backend call, if it makes one.
PastGoDispatch(g) == procs.call[g].pc \in {"backend", "writeback", "apply", "panic"}

\* The fingerprints that calls which had returned when g's call started had sent to
\* the backend.
SentBefore(g) == {r.Hash : r \in procs.call[g].before}

\* The same, of the calls whose backend call returned results.
AnsweredBefore(g) == {r.Hash : r \in {x \in procs.call[g].before : x.answered}}

\* C38 as stated: once a Process call that sent fingerprint f to the backend has
\* returned, no Process call that starts afterwards sends f to the backend.
C38_AsStated ==
    \A g \in Goroutines :
        (procs.pc = "on" /\ PastGoDispatch(g)) => procs.call[g].sent \cap SentBefore(g) = {}

\* C38, restated: once a Process call that sent fingerprint f to the backend and was
\* answered with results has returned, no Process call that starts afterwards sends f
\* to the backend, whatever other calls do meanwhile.
C38_SuppressionAfterAnsweredCall ==
    \A g \in Goroutines :
        (procs.pc = "on" /\ PastGoDispatch(g)) => procs.call[g].sent \cap AnsweredBefore(g) = {}

\* A call that started after a call that had sent a fingerprint was answered and
\* returned: it has that fingerprint among its nodes, finds it in the cache and sends
\* another fingerprint only, while the other goroutine is writing its results back.
C38_Witness ==
    /\ procs.pc = "on"
    /\ \E g \in Goroutines, o \in Goroutines :
          /\ g # o
          /\ procs.call[g].pc = "backend"
          /\ procs.call[g].cachedCount > 0
          /\ procs.call[g].sent # {}
          /\ AnsweredBefore(g) \cap Hashes(procs.call[g].nodes) # {}
          /\ procs.call[o].pc = "writeback"

====
